---------------------------- MODULE Spec2Model ----------------------------
(***************************************************************************)
(* A state-machine model of the travel assistant: the credential store     *)
(* (auth.py), the prompt assembler (travel_prompts.py), the completion     *)
(* client (groq_client.py), the primary store (database.py,                *)
(* conversation_manager.py), the telemetry store (logger.py) and the       *)
(* per-turn orchestrator (app.py).                                         *)
(*                                                                         *)
(* Each component has its own specification (SpecAuth, SpecPrompt, ...)    *)
(* over the module's variables; a specification leaves the variables of    *)
(* the other components at their initial values.                           *)
(***************************************************************************)
EXTENDS Integers, Sequences, FiniteSets, TLC

VARIABLES
    \* ---- the last call made and what it returned (all components)
    op,             \* name of the last operation
    arg,            \* its argument(s)
    ret,            \* its return value
    exc,            \* the exception that escaped it, or NoExc
    fault,          \* the store failure the environment injected into it, or NoFault
    again,          \* observer: the call repeats the call before it (same operation,
                    \* same arguments, neither under a failure)
    \* ---- credential store (auth.py)
    now,            \* datetime.now().timestamp(), in whole seconds
    session_state,  \* st.session_state: a function on the keys that are set
    login_at,       \* observer: time of the last successful login, or NoTime
    stamp_at,       \* observer: time of the last login or re-stamp, or NoTime
    expired,        \* observer: a check has detected the expiry since the last login
    failed,         \* observer: failed logins since the start (capped)
    \* ---- prompt assembler (travel_prompts.py)
    month,                  \* datetime.now().month
    user_preferences,       \* build_context's user_preferences (a dict or None)
    conversation_history,   \* build_context's conversation_history (a list)
    user_query,             \* build_context's user_query
    context,                \* the message list build_context returned; << >> before the call
    \* ---- completion client (groq_client.py)
    http,           \* what requests.post does: a transport error or a response
    response,       \* what get_response returned: << >> for None, <<text>> for a text
    \* ---- primary store (database.py, conversation_manager.py)
    db_now,         \* the latest CURRENT_TIMESTAMP a statement of the store has read
    users,          \* table users: user_id -> row, on the user ids that have a row
    conversations,  \* table conversations: its rows, in insertion order
    written,        \* observer: per user, the last snapshot an update_user_preferences
                    \* call that returned True was given (<< >>: none yet)
    \* ---- session store (conversation_manager.py, on the primary store)
    conversation_sessions,  \* table conversation_sessions: session_id -> row
    conversation_messages,  \* table conversation_messages: its rows, in insertion order
    issued,                 \* the identifiers uuid.uuid4() has handed out so far
    \* ---- orchestrator (app.py) and telemetry store (logger.py)
    messages,       \* st.session_state.messages: the in-memory transcript
    shown,          \* what the assistant bubble of the last turn displays, in order
    turns,          \* the chat turns handled so far
    logs,           \* telemetry table logs: its rows, in insertion order
    user_activity,  \* telemetry table user_activity: its rows
    error_logs,     \* telemetry table error_logs: its rows
    log_file,       \* the flat log file: its lines
    api_calls,      \* telemetry table api_calls: its rows
    log_now,        \* datetime('now') of the telemetry database, in days
    \* ---- calls on the primary store made at the same time
    txn             \* per caller, the call it is in: its arguments, the statement
                    \* it has reached and its open transaction

callvars == <<op, arg, ret, exc, fault, again>>
authvars == <<now, session_state, login_at, stamp_at, expired, failed>>
promptvars == <<month, user_preferences, conversation_history, user_query, context>>
clientvars == <<http, response>>

storevars == <<db_now, users, conversations, written>>
sessvars == <<conversation_sessions, conversation_messages, issued>>
telemetry == <<logs, user_activity, error_logs, log_file>>
turnvars == <<messages, shown, turns, telemetry>>
telextra == <<api_calls, log_now>>
concvars == <<txn>>

\* What the operations of one component leave alone: the other components.
\* (The session store lives in the primary store: its operations read the
\* users table and the store's clock, and leave both as they are.)
notAuth == <<concvars, promptvars, clientvars, storevars, sessvars, turnvars, telextra>>
notPrompt == <<concvars, authvars, clientvars, storevars, sessvars, turnvars, telextra>>
notClient == <<concvars, authvars, promptvars, storevars, sessvars, turnvars, telextra>>
notStore == <<concvars, authvars, promptvars, clientvars, sessvars, turnvars, telextra>>
notSessions == <<concvars, authvars, promptvars, clientvars, users, conversations, written, turnvars,
                 telextra>>
\* A chat turn runs the prompt assembler, the completion client and the two
\* stores; it leaves the credential state, the session's preferences and the session
\* tables.
notTurn == <<concvars, authvars, month, user_preferences, written, sessvars, telextra>>

NoTime == -1
None == "None"
NoExc == "NoExc"

NoFault == "NoFault"

\* The last call was o(a); it returned r / it raised e.
Returns(o, a, r) ==
    /\ op' = o /\ arg' = a /\ ret' = r /\ exc' = NoExc /\ fault' = NoFault
    /\ again' = FALSE
Raises(o, a, e) ==
    /\ op' = o /\ arg' = a /\ ret' = None /\ exc' = e /\ fault' = NoFault
    /\ again' = FALSE
\* The last call was the store operation o(a) under failure f; it returned r.
StoreReturns(o, a, r, f) ==
    /\ op' = o /\ arg' = a /\ ret' = r /\ exc' = NoExc /\ fault' = f
    /\ again' = (op = o /\ arg = a /\ fault = NoFault /\ f = NoFault)

(***************************************************************************)
(* Bounds of the model.                                                    *)
(***************************************************************************)
MaxTime == 7204         \* the clock stops here
MaxFailed == 3          \* the failed-login observer counts up to here
MaxHistory == 5         \* the longest conversation history handed to build_context
MaxContent == 3         \* the longest completion text, in characters
MaxDbTime == 1          \* the latest CURRENT_TIMESTAMP the store hands out
MaxConversations == 2   \* the most rows the conversations table holds
MaxTurns == 1           \* the most chat turns handled
MaxMessages == 2        \* the most rows the conversation_messages table holds, and
                        \* the highest message_count a session row reaches

(***************************************************************************)
(* Credential store: auth.py                                               *)
(***************************************************************************)
session_timeout == 3600
app_password == "travel2024!"

\* The passwords tried: the configured one, a wrong one, the empty one.
Passwords == {app_password, "letmein", ""}

\* The clock advances in steps of about half the timeout, so that gaps of
\* 3598..3602 seconds (and their multiples) all occur.
TickSteps == {(session_timeout \div 2) - 1, session_timeout \div 2,
              (session_timeout \div 2) + 1}

verify_password_always(password) == password = password

verify_password(password) == password = app_password

\* logout(): authenticated = False, auth_time deleted.
logout(s) == [k \in ((DOMAIN s) \cup {"authenticated"}) \ {"auth_time"} |->
                 IF k = "authenticated" THEN FALSE ELSE s[k]]

is_authenticated_noclear(s, t) ==
    IF "authenticated" \notin DOMAIN s THEN [ret |-> FALSE, st |-> s]
    ELSE IF "auth_time" \notin DOMAIN s THEN [ret |-> FALSE, st |-> s]
    ELSE IF t - s["auth_time"] > session_timeout
         THEN [ret |-> FALSE, st |-> s]
    ELSE [ret |-> s["authenticated"], st |-> s]

\* is_authenticated(): the value returned and the session state it leaves.
is_authenticated(s, t) ==
    IF "authenticated" \notin DOMAIN s THEN [ret |-> FALSE, st |-> s]
    ELSE IF "auth_time" \notin DOMAIN s THEN [ret |-> FALSE, st |-> s]
    ELSE IF t - s["auth_time"] > session_timeout
         THEN [ret |-> FALSE, st |-> logout(s)]
    ELSE [ret |-> s["authenticated"], st |-> s]

\* st.session_state with key k set to v.
SetKey(s, k, v) == [x \in (DOMAIN s) \cup {k} |-> IF x = k THEN v ELSE s[x]]

\* login(password): the value returned and the session state it leaves.
login(s, t, password) ==
    IF verify_password(password)
    THEN [ret |-> TRUE,
          st |-> SetKey(SetKey(s, "authenticated", TRUE), "auth_time", t)]
    ELSE [ret |-> FALSE, st |-> s]

refresh_session_nostamp(s, t) == is_authenticated(s, t).st

\* refresh_session(): re-stamps auth_time when is_authenticated() holds.
refresh_session(s, t) ==
    LET c == is_authenticated(s, t)
    IN  IF c.ret THEN SetKey(c.st, "auth_time", t) ELSE c.st

\* authenticate_user(), up to the login form: the check, then the refresh.
authenticate_user(s, t) ==
    LET c == is_authenticated(s, t)
    IN  IF c.ret THEN [ret |-> TRUE, st |-> refresh_session(c.st, t)]
        ELSE [ret |-> FALSE, st |-> c.st]

AuthInit ==
    /\ now = 0
    /\ session_state = << >>
    /\ login_at = NoTime
    /\ stamp_at = NoTime
    /\ expired = FALSE
    /\ failed = 0

CallInit ==
    /\ op = "init"
    /\ arg = None
    /\ ret = None
    /\ exc = NoExc
    /\ fault = NoFault
    /\ again = FALSE
    /\ txn = << >>

\* Time passes between two calls.
Tick ==
    \E d \in TickSteps :
        /\ now + d <= MaxTime
        /\ now' = now + d
        /\ Returns("tick", d, None)
        /\ UNCHANGED <<session_state, login_at, stamp_at, expired, failed>>
        /\ UNCHANGED notAuth

\* The login form is submitted with a password.
Login ==
    \E password \in Passwords :
        \E r \in {login(session_state, now, password)} :
            /\ session_state' = r.st
            /\ Returns("login", password, r.ret)
            /\ login_at' = IF r.ret THEN now ELSE login_at
            /\ stamp_at' = IF r.ret THEN now ELSE stamp_at
            /\ expired' = IF r.ret THEN FALSE ELSE expired
            /\ failed' = IF r.ret \/ failed >= MaxFailed THEN failed ELSE failed + 1
            /\ UNCHANGED now
            /\ UNCHANGED notAuth

\* The logout button.
Logout ==
    /\ session_state' = logout(session_state)
    /\ Returns("logout", None, None)
    /\ login_at' = NoTime
    /\ stamp_at' = NoTime
    /\ UNCHANGED <<now, expired, failed>>
    /\ UNCHANGED notAuth

\* A bare is_authenticated() check (show_logout_option).
IsAuthenticated ==
    LET c == is_authenticated(session_state, now)
    IN  /\ session_state' = c.st
        /\ Returns("is_authenticated", None, c.ret)
        /\ expired' = (expired \/ (login_at # NoTime /\ ~c.ret))
        /\ UNCHANGED <<now, login_at, stamp_at, failed>>
        /\ UNCHANGED notAuth

\* A request: authenticate_user() up to the login form.
AuthenticateUser ==
    LET r == authenticate_user(session_state, now)
    IN  /\ session_state' = r.st
        /\ Returns("authenticate_user", None, r.ret)
        /\ stamp_at' = IF r.ret THEN now ELSE stamp_at
        /\ expired' = (expired \/ (login_at # NoTime /\ ~r.ret))
        /\ UNCHANGED <<now, login_at, failed>>
        /\ UNCHANGED notAuth

(***************************************************************************)
(* Prompt assembler: travel_prompts.py                                     *)
(***************************************************************************)

\* A dict is a function on its keys; the empty dict.
EmptyDict == [k \in {} |-> k]

\* if d.get(key): the key is set and its value is truthy ("" and [] are not).
GetTruthy(d, key) ==
    /\ key \in DOMAIN d
    /\ IF key = "travel_style" THEN d[key] # << >> ELSE d[key] # ""

\* Preference snapshots as the sidebar builds them (app.py 74-79), and the
\* empty dict of a user without a row.
PreferenceSets ==
    { EmptyDict,
      [budget_range |-> "Budget", travel_style |-> <<"Adventure", "Culture">>,
       preferred_climate |-> "Tropical", last_updated |-> "t1"],
      [budget_range |-> "No preference", travel_style |-> << >>,
       preferred_climate |-> "No preference", last_updated |-> "t2"],
      [budget_range |-> "Luxury"] }

\* The snapshots written to the store: a full one, a partial one, the empty one.
StoredPreferenceSets ==
    {P \in PreferenceSets : "preferred_climate" \in DOMAIN P => P.preferred_climate = "Tropical"}

\* The roles a history entry may carry: the two kept and one that is dropped.
Roles == {"user", "assistant", "system"}
Contents == {"a", "b"}
HistoryEntries == [role : Roles, content : Contents]

\* The season with December left to the last branch.
_get_current_season_december(m) ==
    IF m \in {1, 2} THEN "winter"
    ELSE IF m \in {3, 4, 5} THEN "spring"
    ELSE IF m \in {6, 7, 8} THEN "summer"
    ELSE "autumn"

\* datetime.now().month
Months == 1..12

_get_current_season(m) ==
    IF m \in {12, 1, 2} THEN "winter"
    ELSE IF m \in {3, 4, 5} THEN "spring"
    ELSE IF m \in {6, 7, 8} THEN "summer"
    ELSE "autumn"

\* The system prompt, as the sequence of its interpolated parts.
_get_system_prompt(prefs, m) ==
    LET head == <<"expert", _get_current_season(m)>>
        budget == IF GetTruthy(prefs, "budget_range")
                  THEN <<"Budget Level", prefs["budget_range"]>> ELSE << >>
        style == IF GetTruthy(prefs, "travel_style")
                 THEN <<"Travel Style">> \o prefs["travel_style"] ELSE << >>
        climate == IF GetTruthy(prefs, "preferred_climate")
                      /\ prefs["preferred_climate"] # "No preference"
                   THEN <<"Climate Preference", prefs["preferred_climate"]>>
                   ELSE << >>
    IN  IF prefs # EmptyDict
        THEN head \o <<"USER PREFERENCES">> \o budget \o style \o climate
                  \o <<"RESPONSE GUIDELINES">>
        ELSE head \o <<"RESPONSE GUIDELINES">>

\* conversation_history[-n:]
LastN(h, n) == IF Len(h) > n THEN SubSeq(h, Len(h) - n + 1, Len(h)) ELSE h

RoleKept(msg) == msg.role \in {"user", "assistant"}

build_context_last5(prefs, history, query, m) ==
    <<[role |-> "system", content |-> _get_system_prompt(prefs, m)]>>
    \o SelectSeq(LastN(history, 5), RoleKept)
    \o <<[role |-> "user", content |-> query]>>

\* build_context(user_preferences, conversation_history, user_query)
build_context(prefs, history, query, m) ==
    LET system == <<[role |-> "system", content |-> _get_system_prompt(prefs, m)]>>
        recent_history == IF Len(history) > 4
                          THEN SubSeq(history, Len(history) - 3, Len(history))
                          ELSE history
        kept == SelectSeq(recent_history, RoleKept)
    IN  system
        \o [i \in 1..Len(kept) |-> [role |-> kept[i].role, content |-> kept[i].content]]
        \o <<[role |-> "user", content |-> query]>>

\* All lists over S of length at most n.
SeqUpTo(S, n) == UNION {[1..k -> S] : k \in 0..n}

PromptIdle ==
    /\ month = 1
    /\ user_preferences = EmptyDict
    /\ conversation_history = << >>
    /\ user_query = ""
    /\ context = << >>

PromptInputs ==
    /\ month \in {1, 7}
    /\ user_preferences \in PreferenceSets
    /\ conversation_history \in SeqUpTo(HistoryEntries, MaxHistory)
    /\ user_query \in Contents
    /\ context = << >>

\* A context assembled in each month of the year, for every preference
\* snapshot and a history of at most one entry.
SeasonInputs ==
    /\ month \in Months
    /\ user_preferences \in PreferenceSets
    /\ conversation_history \in SeqUpTo(HistoryEntries, 1)
    /\ user_query \in Contents
    /\ context = << >>

BuildContext ==
    /\ context = << >>
    /\ context' = build_context(user_preferences, conversation_history,
                                user_query, month)
    /\ Returns("build_context", None, None)
    /\ UNCHANGED <<month, user_preferences, conversation_history, user_query>>
    /\ UNCHANGED notPrompt

(***************************************************************************)
(* Completion client: groq_client.py                                       *)
(***************************************************************************)

\* A text is a sequence of characters; these are the characters used.
Whitespace == {" ", "\n"}
Chars == Whitespace \cup {"P"}
Texts == SeqUpTo(Chars, MaxContent)

\* Optional[str]: None, or a text.
NoText == << >>
Some(t) == <<t>>

\* str.strip(): leading and trailing whitespace removed.
RECURSIVE lstrip(_)
lstrip(t) == IF t # << >> /\ Head(t) \in Whitespace THEN lstrip(Tail(t)) ELSE t

RECURSIVE rstrip(_)
rstrip(t) == IF t # << >> /\ t[Len(t)] \in Whitespace
             THEN rstrip(SubSeq(t, 1, Len(t) - 1)) ELSE t

strip(t) == rstrip(lstrip(t))

\* The status codes the endpoint answers with.
StatusCodes == {200, 201, 401, 429, 500}

\* The shapes of a response body: no JSON at all; a JSON array; an object
\* without "choices"; with an empty "choices"; with a first choice that has no
\* "message"; whose content is null; whose content is a text.
BodyShapes == {"not_json", "array", "no_choices", "empty_choices",
               "no_message", "null_content", "content"}

Bodies == [shape : BodyShapes \ {"content"}, content : {<< >>}]
          \cup [shape : {"content"}, content : Texts]

\* What requests.post does: it raises (a RequestException), or it returns a
\* response with a status code and a body.
HttpOutcomes ==
    [kind : {"ConnectionError", "Timeout"}, status_code : {0},
     body : {[shape |-> "not_json", content |-> << >>]}]
    \cup [kind : {"response"}, status_code : StatusCodes, body : Bodies]

\* The try block of get_response: the value it returns, or the exception class
\* it raises.
get_response_try(h) ==
    IF h.kind # "response"
    THEN [raises |-> "RequestException", value |-> NoText]
    ELSE IF h.status_code = 200
    THEN CASE h.body.shape = "not_json" ->
                [raises |-> "JSONDecodeError", value |-> NoText]
           [] h.body.shape \in {"array", "no_choices", "empty_choices"} ->
                [raises |-> NoExc, value |-> NoText]
           [] h.body.shape = "no_message" ->
                [raises |-> "KeyError", value |-> NoText]
           [] h.body.shape = "null_content" ->
                [raises |-> "AttributeError", value |-> NoText]
           [] OTHER ->
                [raises |-> NoExc, value |-> Some(strip(h.body.content))]
    ELSE [raises |-> NoExc, value |-> NoText]

get_response_two_handlers(h) ==
    LET r == get_response_try(h)
    IN  IF r.raises \in {"RequestException", "JSONDecodeError"}
        THEN [raises |-> NoExc, value |-> NoText]
        ELSE r

\* get_response(messages): the three except clauses turn every exception of
\* the try block into None.
get_response(h) ==
    LET r == get_response_try(h)
    IN  IF r.raises = "RequestException" THEN [raises |-> NoExc, value |-> NoText]
        ELSE IF r.raises = "JSONDecodeError" THEN [raises |-> NoExc, value |-> NoText]
        ELSE IF r.raises # NoExc THEN [raises |-> NoExc, value |-> NoText]
        ELSE r

ClientIdle ==
    /\ http = [kind |-> "response", status_code |-> 200,
               body |-> [shape |-> "content", content |-> << >>]]
    /\ response = NoText

ClientInputs ==
    /\ http \in HttpOutcomes
    /\ response = NoText

GetResponse ==
    /\ op = "init"
    /\ LET r == get_response(http)
       IN  /\ response' = r.value
           /\ op' = "get_response" /\ arg' = None /\ ret' = None
           /\ exc' = r.raises /\ fault' = NoFault /\ again' = FALSE
    /\ UNCHANGED http
    /\ UNCHANGED notClient

(***************************************************************************)
(* Primary store: database.py                                              *)
(*                                                                         *)
(* Every operation opens a connection, runs its statements in one          *)
(* transaction (psycopg2 does not autocommit) and commits at the end.  A   *)
(* failure is an input: the connection cannot be opened ("connect"), or    *)
(* the k-th statement raises psycopg2.Error ("stmt1", "stmt2", "stmt3"; a  *)
(* failing commit behaves as a failing last statement).  A transaction     *)
(* that is not committed leaves no trace: the except clause returns and    *)
(* the connection is dropped.                                              *)
(* Of a users row only the preferences column is kept (email, created_at   *)
(* and last_active are not read by any operation modelled here).           *)
(***************************************************************************)
UserIds == {"u1", "u2"}

\* json.dumps of a dict whose values are strings, lists of strings (key
\* travel_style) and booleans (key context_used): the JSON document, an
\* object of typed JSON values.
JsonValue(key, v) ==
    IF key = "travel_style" THEN [t |-> "array", s |-> "", a |-> v]
    ELSE IF key = "context_used"
         THEN [t |-> "bool", s |-> IF v THEN "true" ELSE "false", a |-> << >>]
    ELSE [t |-> "string", s |-> v, a |-> << >>]

dumps(d) == [k \in DOMAIN d |-> JsonValue(k, d[k])]

\* What psycopg2 hands back for a JSONB column: the document as a dict.
PyValue(j) ==
    IF j.t = "array" THEN j.a
    ELSE IF j.t = "bool" THEN j.s = "true"
    ELSE j.s

loads(j) == [k \in DOMAIN j |-> PyValue(j[k])]

\* The conversation record saved (app.py 151-156).
ConversationData ==
    { [timestamp |-> "t1", user_message |-> "hello", assistant_response |-> "hi",
       context_used |-> TRUE] }

\* datetime.isoformat()
isoformat(t) == <<"isoformat", t>>

\* The failures an operation of k statements can meet.
Faults(k) == {NoFault, "connect"}
             \cup (IF k >= 1 THEN {"stmt1"} ELSE {})
             \cup (IF k >= 2 THEN {"stmt2"} ELSE {})
             \cup (IF k >= 3 THEN {"stmt3"} ELSE {})

\* WHERE user_id = %s on the conversations table.
RowsOf(rows, user_id) == SelectSeq(rows, LAMBDA r : r.user_id = user_id)

\* INSERT INTO users ... ON CONFLICT (user_id) DO UPDATE SET preferences = ...
UpsertPreferences_keep(u, user_id, json) ==
    IF user_id \in DOMAIN u THEN u
    ELSE [x \in (DOMAIN u) \cup {user_id} |->
             IF x = user_id THEN [preferences |-> json] ELSE u[x]]

\* The upsert that merges the snapshot into the stored document
\* (preferences = users.preferences || EXCLUDED.preferences).
UpsertPreferences_merge(u, user_id, json) ==
    [x \in (DOMAIN u) \cup {user_id} |->
        IF x # user_id THEN u[x]
        ELSE IF x \notin DOMAIN u THEN [preferences |-> json]
        ELSE [preferences |->
                 [k \in (DOMAIN u[x].preferences) \cup (DOMAIN json) |->
                     IF k \in DOMAIN json THEN json[k] ELSE u[x].preferences[k]]]]

UpsertPreferences(u, user_id, json) ==
    [x \in (DOMAIN u) \cup {user_id} |->
        IF x = user_id THEN [preferences |-> json] ELSE u[x]]

\* The insert of save_conversation without the user upsert before it.
UpsertUser_skip(u, user_id) == u

\* INSERT INTO users (user_id, last_active) ... ON CONFLICT DO UPDATE SET
\* last_active: a new row takes the column default '{}' for preferences.
UpsertUser(u, user_id) ==
    [x \in (DOMAIN u) \cup {user_id} |->
        IF x \in DOMAIN u THEN u[x] ELSE [preferences |-> dumps(EmptyDict)]]

\* update_user_preferences(user_id, preferences)
update_user_preferences(u, user_id, preferences, f) ==
    IF f # NoFault THEN [ret |-> FALSE, users |-> u]
    ELSE [ret |-> TRUE, users |-> UpsertPreferences(u, user_id, dumps(preferences))]

\* ORDER BY created_at DESC: the orders the engine may return the rows in
\* (rows with equal created_at come in any order).
DescOrders(rows) ==
    {p \in [1..Len(rows) -> 1..Len(rows)] :
        /\ \A i, j \in 1..Len(rows) : i # j => p[i] # p[j]
        /\ \A i \in 1..(Len(rows) - 1) :
              rows[p[i]].created_at >= rows[p[i + 1]].created_at}

\* LIMIT n
Limit(rows, n) == IF Len(rows) > n THEN SubSeq(rows, 1, n) ELSE rows

\* get_user_data(user_id), the rows coming in the order p.
get_user_data(u, rows, user_id, p, f) ==
    IF f # NoFault
    THEN [preferences |-> EmptyDict, conversations |-> << >>]
    ELSE LET mine == RowsOf(rows, user_id)
             recent == Limit([i \in 1..Len(mine) |-> mine[p[i]]], 10)
         IN  [preferences |-> IF user_id \in DOMAIN u
                              THEN loads(u[user_id].preferences) ELSE EmptyDict,
              conversations |-> [i \in 1..Len(recent) |->
                                    loads(recent[i].conversation_data)]]

\* save_conversation with each statement committed on its own: the user
\* upsert outlives a failure of the insert.
save_conversation_autocommit(u, rows, t, user_id, conversation_data, f) ==
    IF f = "stmt2" THEN [ret |-> FALSE, users |-> UpsertUser(u, user_id),
                         conversations |-> rows]
    ELSE IF f # NoFault THEN [ret |-> FALSE, users |-> u, conversations |-> rows]
    ELSE [ret |-> TRUE,
          users |-> UpsertUser(u, user_id),
          conversations |-> Append(rows,
              [user_id |-> user_id,
               conversation_data |-> dumps(conversation_data),
               created_at |-> t])]

\* save_conversation(user_id, conversation_data): the user upsert, then the
\* insert, committed together.
save_conversation(u, rows, t, user_id, conversation_data, f) ==
    IF f # NoFault THEN [ret |-> FALSE, users |-> u, conversations |-> rows]
    ELSE [ret |-> TRUE,
          users |-> UpsertUser(u, user_id),
          conversations |-> Append(rows,
              [user_id |-> user_id,
               conversation_data |-> dumps(conversation_data),
               created_at |-> t])]

clear_user_conversations_strict(rows, user_id, f) ==
    IF f # NoFault THEN [ret |-> FALSE, conversations |-> rows]
    ELSE [ret |-> RowsOf(rows, user_id) # << >>,
          conversations |-> SelectSeq(rows, LAMBDA r : r.user_id # user_id)]

\* clear_user_conversations(user_id)
clear_user_conversations(rows, user_id, f) ==
    IF f # NoFault THEN [ret |-> FALSE, conversations |-> rows]
    ELSE [ret |-> TRUE,
          conversations |-> SelectSeq(rows, LAMBDA r : r.user_id # user_id)]

\* get_conversation_count(user_id)
get_conversation_count(rows, user_id, f) ==
    IF f # NoFault THEN 0 ELSE Len(RowsOf(rows, user_id))

\* SELECT MIN(created_at) / MAX(created_at): << >> for NULL.
MinCreated(rows) ==
    IF rows = << >> THEN << >>
    ELSE <<CHOOSE t \in {rows[i].created_at : i \in 1..Len(rows)} :
              \A i \in 1..Len(rows) : t <= rows[i].created_at>>

MaxCreated(rows) ==
    IF rows = << >> THEN << >>
    ELSE <<CHOOSE t \in {rows[i].created_at : i \in 1..Len(rows)} :
              \A i \in 1..Len(rows) : t >= rows[i].created_at>>

\* x.isoformat() if x else None, on an optional timestamp.
IsoOrNone(x) == IF x # << >> THEN <<isoformat(x[1])>> ELSE << >>

get_user_analytics_first(rows, user_id, f) ==
    IF f # NoFault THEN EmptyDict
    ELSE [total_conversations |-> Len(RowsOf(rows, user_id)),
          first_interaction |-> IsoOrNone(MinCreated(rows)),
          last_interaction |-> IsoOrNone(MaxCreated(rows))]

\* get_user_analytics(user_id)
get_user_analytics(rows, user_id, f) ==
    IF f # NoFault THEN EmptyDict
    ELSE LET mine == RowsOf(rows, user_id)
         IN  [total_conversations |-> Len(mine),
              first_interaction |-> IsoOrNone(MinCreated(mine)),
              last_interaction |-> IsoOrNone(MaxCreated(mine))]

StoreInit ==
    /\ db_now = 0
    /\ users = EmptyDict
    /\ conversations = << >>
    /\ written = [u \in UserIds |-> << >>]

\* CURRENT_TIMESTAMP as a statement may read it: the store's clock does not
\* run backwards.  (An operation that stores no timestamp is given the
\* latest one read, which it leaves in place.)
Timestamps(t) == t..MaxDbTime

UpdateUserPreferences ==
    \E user_id \in UserIds, preferences \in StoredPreferenceSets, f \in Faults(1) :
        \E r \in {update_user_preferences(users, user_id, preferences, f)} :
            /\ users' = r.users
            /\ written' = IF r.ret THEN [written EXCEPT ![user_id] = <<preferences>>]
                          ELSE written
            /\ StoreReturns("update_user_preferences",
                            [user_id |-> user_id, preferences |-> preferences],
                            r.ret, f)
            /\ UNCHANGED <<db_now, conversations>>
            /\ UNCHANGED notStore

GetUserData ==
    \E user_id \in UserIds, f \in Faults(2) :
        \E p \in DescOrders(RowsOf(conversations, user_id)) :
            /\ StoreReturns("get_user_data", [user_id |-> user_id],
                            get_user_data(users, conversations, user_id, p, f), f)
            /\ UNCHANGED storevars
            /\ UNCHANGED notStore

SaveConversation ==
    \E user_id \in UserIds, conversation_data \in ConversationData, f \in Faults(2),
       t \in Timestamps(db_now) :
        \E r \in {save_conversation(users, conversations, t, user_id,
                                   conversation_data, f)} :
            /\ Len(conversations) < MaxConversations
            /\ r.ret \/ t = db_now
            /\ db_now' = t
            /\ users' = r.users
            /\ conversations' = r.conversations
            /\ StoreReturns("save_conversation",
                            [user_id |-> user_id,
                             conversation_data |-> conversation_data],
                            r.ret, f)
            /\ UNCHANGED written
            /\ UNCHANGED notStore

ClearUserConversations ==
    \E user_id \in UserIds, f \in Faults(1) :
        \E r \in {clear_user_conversations(conversations, user_id, f)} :
            /\ conversations' = r.conversations
            /\ StoreReturns("clear_user_conversations", [user_id |-> user_id],
                            r.ret, f)
            /\ UNCHANGED <<db_now, users, written>>
            /\ UNCHANGED notStore

GetConversationCount ==
    \E user_id \in UserIds, f \in Faults(1) :
        /\ StoreReturns("get_conversation_count", [user_id |-> user_id],
                        get_conversation_count(conversations, user_id, f), f)
        /\ UNCHANGED storevars
        /\ UNCHANGED notStore

GetUserAnalytics ==
    \E user_id \in UserIds, f \in Faults(3) :
        /\ StoreReturns("get_user_analytics", [user_id |-> user_id],
                        get_user_analytics(conversations, user_id, f), f)
        /\ UNCHANGED storevars
        /\ UNCHANGED notStore


(***************************************************************************)
(* Session store: conversation_manager.py, on the tables of                *)
(* database.py 86-107.  SessionIds are the strings uuid4 produces, each    *)
(* at most once.  Of a                                                     *)
(* session row the columns user_id, title, last_updated and message_count  *)
(* are kept; of a message row session_id, user_id and message_data (role   *)
(* and content), the rows standing in insertion order.  Each operation     *)
(* runs in one transaction: a statement that fails (also on a foreign key) *)
(* leaves both tables as they were.                                        *)
(***************************************************************************)
SessionIds == {"s1", "s2"}

Titles == {None}

MessageRoles == {"user"}

\* WHERE session_id = %s on the conversation_messages table.
MessagesOf(rows, session_id) == SelectSeq(rows, LAMBDA r : r.session_id = session_id)

\* The table without the row of session_id.
WithoutSession(sessions, session_id) ==
    [x \in (DOMAIN sessions) \ {session_id} |-> sessions[x]]

\* create_new_session on a table without the foreign key to users.
create_new_session_nofk(u, sessions, t, session_id, user_id, title, f) ==
    IF f # NoFault
    THEN [ret |-> session_id, conversation_sessions |-> sessions]
    ELSE [ret |-> session_id,
          conversation_sessions |->
              [x \in (DOMAIN sessions) \cup {session_id} |->
                  IF x = session_id
                  THEN [user_id |-> user_id,
                        title |-> IF title = None THEN "Travel Chat" ELSE title,
                        last_updated |-> t,
                        message_count |-> 0]
                  ELSE sessions[x]]]

\* create_new_session(user_id, title), uuid4 having produced session_id: the
\* insert fails when user_id has no users row (foreign key); the identifier
\* is returned in every case.
create_new_session(u, sessions, t, session_id, user_id, title, f) ==
    IF f # NoFault \/ user_id \notin DOMAIN u
    THEN [ret |-> session_id, conversation_sessions |-> sessions]
    ELSE [ret |-> session_id,
          conversation_sessions |->
              [x \in (DOMAIN sessions) \cup {session_id} |->
                  IF x = session_id
                  THEN [user_id |-> user_id,
                        title |-> IF title = None THEN "Travel Chat" ELSE title,
                        last_updated |-> t,
                        message_count |-> 0]
                  ELSE sessions[x]]]

\* save_message_to_session(session_id, user_id, role, content): the insert
\* (failing on either foreign key), then the update of the session row,
\* committed together.
save_message_to_session(u, sessions, rows, t, session_id, user_id, role, content, f) ==
    IF f # NoFault \/ session_id \notin DOMAIN sessions \/ user_id \notin DOMAIN u
    THEN [ret |-> FALSE, conversation_sessions |-> sessions,
          conversation_messages |-> rows]
    ELSE [ret |-> TRUE,
          conversation_sessions |->
              [sessions EXCEPT ![session_id] =
                  [@ EXCEPT !.last_updated = t,
                            !.message_count = @ + 1]],
          conversation_messages |->
              Append(rows, [session_id |-> session_id,
                            user_id |-> user_id,
                            message_data |-> dumps([role |-> role, content |-> content])])]

\* delete_session(session_id, user_id): DELETE the messages WHERE session_id
\* AND user_id, then DELETE the session WHERE session_id AND user_id, which
\* takes the session's remaining messages with it (ON DELETE CASCADE).
delete_session(sessions, rows, session_id, user_id, f) ==
    IF f # NoFault
    THEN [ret |-> FALSE, conversation_sessions |-> sessions,
          conversation_messages |-> rows]
    ELSE LET rest == SelectSeq(rows, LAMBDA r :
                         ~(r.session_id = session_id /\ r.user_id = user_id))
             owned == /\ session_id \in DOMAIN sessions
                      /\ sessions[session_id].user_id = user_id
         IN  IF owned
             THEN [ret |-> TRUE,
                   conversation_sessions |-> WithoutSession(sessions, session_id),
                   conversation_messages |->
                       SelectSeq(rest, LAMBDA r : r.session_id # session_id)]
             ELSE [ret |-> TRUE, conversation_sessions |-> sessions,
                   conversation_messages |-> rest]

\* ORDER BY last_updated DESC on the sessions of user_id: the orders the
\* engine may return them in (equal last_updated: any order).
SessionOrders(sessions, user_id) ==
    LET mine == {x \in DOMAIN sessions : sessions[x].user_id = user_id}
        n == Cardinality(mine)
    IN  {q \in [1..n -> mine] :
            /\ \A i, j \in 1..n : i # j => q[i] # q[j]
            /\ \A i \in 1..(n - 1) :
                  sessions[q[i]].last_updated >= sessions[q[i + 1]].last_updated}

\* get_user_sessions(user_id, limit), the rows coming in the order q.
get_user_sessions(sessions, user_id, limit, q, f) ==
    IF f # NoFault THEN << >>
    ELSE Limit([i \in 1..Len(q) |->
                   [session_id |-> q[i],
                    title |-> sessions[q[i]].title,
                    last_updated |-> sessions[q[i]].last_updated,
                    message_count |-> sessions[q[i]].message_count]], limit)

\* update_session_title with SET title = %s alone.
update_session_title_nostamp(sessions, t, session_id, new_title, f) ==
    IF f # NoFault THEN [ret |-> FALSE, conversation_sessions |-> sessions]
    ELSE [ret |-> TRUE,
          conversation_sessions |->
              IF session_id \in DOMAIN sessions
              THEN [sessions EXCEPT ![session_id] = [@ EXCEPT !.title = new_title]]
              ELSE sessions]

\* update_session_title(session_id, new_title): True also when no row has
\* that session_id.
update_session_title(sessions, t, session_id, new_title, f) ==
    IF f # NoFault THEN [ret |-> FALSE, conversation_sessions |-> sessions]
    ELSE [ret |-> TRUE,
          conversation_sessions |->
              IF session_id \in DOMAIN sessions
              THEN [sessions EXCEPT ![session_id] =
                       [@ EXCEPT !.title = new_title, !.last_updated = t]]
              ELSE sessions]

\* get_session_info(session_id): << >> for None.
get_session_info(sessions, session_id, f) ==
    IF f # NoFault \/ session_id \notin DOMAIN sessions THEN << >>
    ELSE <<[session_id |-> session_id,
            user_id |-> sessions[session_id].user_id,
            title |-> sessions[session_id].title,
            last_updated |-> sessions[session_id].last_updated,
            message_count |-> sessions[session_id].message_count]>>


\* get_session_messages(session_id): the message_data of the session's rows,
\* ORDER BY created_at ASC (the order of insertion).
get_session_messages(rows, session_id, f) ==
    IF f # NoFault THEN << >>
    ELSE LET mine == MessagesOf(rows, session_id)
         IN  [i \in 1..Len(mine) |-> loads(mine[i].message_data)]

SessionsIdle ==
    /\ conversation_sessions = EmptyDict
    /\ conversation_messages = << >>
    /\ issued = {}

\* The primary store when the session operations start: the clock at 0 and
\* a users row, as the user upsert of save_conversation creates it, for the
\* first or for both of the user ids.
SessionsStoreInit ==
    /\ db_now = 0
    /\ \E S \in {{"u1"}, UserIds} :
          users = [x \in S |-> [preferences |-> dumps(EmptyDict)]]
    /\ conversations = << >>
    /\ written = [u \in UserIds |-> << >>]

CreateNewSession ==
    \E session_id \in SessionIds \ issued, user_id \in UserIds, title \in Titles,
       f \in Faults(1), t \in Timestamps(db_now) :
        \E r \in {create_new_session(users, conversation_sessions, t,
                                    session_id, user_id, title, f)} :
            /\ issued' = issued \cup {session_id}
            /\ session_id \in DOMAIN r.conversation_sessions \/ t = db_now
            /\ db_now' = t
            /\ conversation_sessions' = r.conversation_sessions
            /\ StoreReturns("create_new_session",
                            [user_id |-> user_id, title |-> title], r.ret, f)
            /\ UNCHANGED conversation_messages
            /\ UNCHANGED notSessions

SaveMessageToSession ==
    \E session_id \in SessionIds, user_id \in UserIds, role \in MessageRoles,
       f \in Faults(2), t \in Timestamps(db_now) :
        \E r \in {save_message_to_session(users, conversation_sessions,
                                         conversation_messages, t,
                                         session_id, user_id, role, "hello", f)} :
            /\ Len(conversation_messages) < MaxMessages
            /\ session_id \in DOMAIN conversation_sessions =>
                  conversation_sessions[session_id].message_count < MaxMessages
            /\ r.ret \/ t = db_now
            /\ db_now' = t
            /\ conversation_sessions' = r.conversation_sessions
            /\ conversation_messages' = r.conversation_messages
            /\ StoreReturns("save_message_to_session",
                            [session_id |-> session_id, user_id |-> user_id,
                             role |-> role, content |-> "hello"], r.ret, f)
            /\ UNCHANGED issued
            /\ UNCHANGED notSessions

DeleteSession ==
    \E session_id \in SessionIds, user_id \in UserIds, f \in Faults(2) :
        \E r \in {delete_session(conversation_sessions, conversation_messages,
                                session_id, user_id, f)} :
            /\ conversation_sessions' = r.conversation_sessions
            /\ conversation_messages' = r.conversation_messages
            /\ StoreReturns("delete_session",
                            [session_id |-> session_id, user_id |-> user_id],
                            r.ret, f)
            /\ UNCHANGED <<issued, db_now>>
            /\ UNCHANGED notSessions


\* The titles a session is renamed to.
NewTitles == {"Weekend in Rome"}

\* The values of limit: one session, and the default of 20.
Limits == {1, 20}

GetUserSessions ==
    \E user_id \in UserIds, limit \in Limits, f \in Faults(1) :
        \E q \in SessionOrders(conversation_sessions, user_id) :
            /\ StoreReturns("get_user_sessions",
                            [user_id |-> user_id, limit |-> limit],
                            get_user_sessions(conversation_sessions, user_id, limit,
                                              q, f), f)
            /\ UNCHANGED <<sessvars, db_now>>
            /\ UNCHANGED notSessions

UpdateSessionTitle ==
    \E session_id \in SessionIds, new_title \in NewTitles, f \in Faults(1),
       t \in Timestamps(db_now) :
        \E r \in {update_session_title(conversation_sessions, t, session_id,
                                      new_title, f)} :
            /\ r.conversation_sessions # conversation_sessions \/ t = db_now
            /\ db_now' = t
            /\ conversation_sessions' = r.conversation_sessions
            /\ StoreReturns("update_session_title",
                            [session_id |-> session_id, new_title |-> new_title],
                            r.ret, f)
            /\ UNCHANGED <<conversation_messages, issued>>
            /\ UNCHANGED notSessions

GetSessionInfo ==
    \E session_id \in SessionIds, f \in Faults(1) :
        /\ StoreReturns("get_session_info", [session_id |-> session_id],
                        get_session_info(conversation_sessions, session_id, f), f)
        /\ UNCHANGED <<sessvars, db_now>>
        /\ UNCHANGED notSessions


(***************************************************************************)
(* Auto-titling: conversation_manager.py 244-257.  The first message and   *)
(* the titles are texts, sequences of characters; the messages tried are   *)
(* made of up to MaxWords words, all of them short or all of them long,    *)
(* the k-th one a run of the k-th letter, separated by a run of whitespace *)
(* (which, when longer than one character, also leads and trails the       *)
(* message).                                                               *)
(***************************************************************************)
MaxWords == 7

ShortWords == {1, 2}
LongWords == {9, 10}
Letters == <<"a", "b", "c", "d", "e", "f", "g", "h", "i">>
Separators == {<<" ">>, <<"\n", " ">>}

RECURSIVE MessageFrom(_, _, _)
MessageFrom(ws, k, sep) ==
    IF k > Len(ws) THEN << >>
    ELSE [j \in 1..ws[k] |-> Letters[k]]
         \o (IF k < Len(ws) THEN sep ELSE << >>)
         \o MessageFrom(ws, k + 1, sep)

Message(ws, sep) ==
    IF Len(sep) > 1 THEN sep \o MessageFrom(ws, 1, sep) \o sep
    ELSE MessageFrom(ws, 1, sep)

FirstMessages ==
    {Message(ws, sep) : ws \in SeqUpTo(ShortWords, MaxWords)
                               \cup SeqUpTo(LongWords, MaxWords),
                        sep \in Separators}

\* datetime.datetime.now(), its month and day.
Dates == {<<1, 5>>, <<12, 31>>}

\* str.split(): the maximal runs of characters that are not whitespace.
\* word is the run being read at position i, words the runs read before it.
RECURSIVE split_from(_, _, _, _)
split_from(text, i, word, words) ==
    IF i > Len(text)
    THEN IF word = << >> THEN words ELSE Append(words, word)
    ELSE IF text[i] \in Whitespace
         THEN split_from(text, i + 1, << >>,
                         IF word = << >> THEN words ELSE Append(words, word))
         ELSE split_from(text, i + 1, Append(word, text[i]), words)

split(text) == split_from(text, 1, << >>, << >>)

\* sep.join(words)
RECURSIVE join(_, _)
join(sep, words) ==
    IF words = << >> THEN << >>
    ELSE IF Len(words) = 1 THEN words[1]
    ELSE words[1] \o sep \o join(sep, Tail(words))

\* strftime('%m/%d')
Digits == <<"0", "1", "2", "3", "4", "5", "6", "7", "8", "9">>
TwoDigits(n) == <<Digits[(n \div 10) + 1], Digits[(n % 10) + 1]>>
strftime(date) == TwoDigits(date[1]) \o <<"/">> \o TwoDigits(date[2])

\* "Travel Chat - "
TravelChat == <<"T", "r", "a", "v", "e", "l", " ", "C", "h", "a", "t", " ", "-", " ">>

\* The title auto_generate_title computes (lines 247-253).
generated_title_five(first_message, date) ==
    LET title == join(<<" ">>, Limit(split(first_message), 5))
    IN  IF Len(title) > 50 THEN SubSeq(title, 1, 47) \o <<".", ".", ".">>
        ELSE IF Len(title) < 10 THEN TravelChat \o strftime(date)
        ELSE title

generated_title(first_message, date) ==
    LET title == join(<<" ">>, Limit(split(first_message), 6))
    IN  IF Len(title) > 50 THEN SubSeq(title, 1, 47) \o <<".", ".", ".">>
        ELSE IF Len(title) < 10 THEN TravelChat \o strftime(date)
        ELSE title

\* The session table when a first message arrives: the first session with
\* the title it was created with.
TitleInit ==
    /\ db_now = 0
    /\ users = [x \in {"u1"} |-> [preferences |-> dumps(EmptyDict)]]
    /\ conversations = << >>
    /\ written = [u \in UserIds |-> << >>]
    /\ conversation_sessions =
          [x \in {"s1"} |-> [user_id |-> "u1", title |-> TravelChat \o strftime(<<1, 5>>),
                             last_updated |-> 0, message_count |-> 1]]
    /\ conversation_messages =
          <<[session_id |-> "s1", user_id |-> "u1",
             message_data |-> dumps([role |-> "user", content |-> "hello"])]>>
    /\ issued = {"s1"}

\* auto_generate_title(session_id, first_message): the title is computed,
\* stored with update_session_title, whose result is dropped, and returned.
AutoGenerateTitle ==
    \E first_message \in FirstMessages, date \in Dates :
        \E title \in {generated_title(first_message, date)} :
            \E session_id \in SessionIds, f \in Faults(1), t \in Timestamps(db_now) :
                \E r \in {update_session_title(conversation_sessions, t, session_id,
                                              title, f)} :
                    /\ (r.ret /\ session_id \in DOMAIN conversation_sessions)
                          \/ t = db_now
                    /\ db_now' = t
                    /\ conversation_sessions' = r.conversation_sessions
                    /\ StoreReturns("auto_generate_title",
                                    [session_id |-> session_id,
                                     first_message |-> first_message],
                                    title, f)
                    /\ UNCHANGED <<conversation_messages, issued>>
                    /\ UNCHANGED notSessions

(***************************************************************************)
(* Telemetry store: logger.py.  A write to the SQLite database that fails  *)
(* is caught by its writer (sqlite3.Error); a write to the flat file that  *)
(* fails raises OSError out of log_to_file, which no writer catches.  The  *)
(* tables and the file are handled as one record tel; a writer returns the *)
(* new tel and the exception that escapes it.  Every row takes the column  *)
(* default CURRENT_TIMESTAMP, the telemetry clock log_now, which counts    *)
(* days.                                                                   *)
(***************************************************************************)
Tel(l, a, e, f) == [logs |-> l, user_activity |-> a, error_logs |-> e, log_file |-> f]

\* log_to_file(level, message, data); fails: open() or write() raises.
log_to_file(tel, level, message, fails) ==
    IF fails THEN [tel |-> tel, raises |-> "OSError"]
    ELSE [tel |-> [tel EXCEPT !.log_file = Append(@, [level |-> level,
                                                     message |-> message])],
          raises |-> NoExc]

\* log_to_db(user_id, log_type, message, data); fails: sqlite3.Error, caught.
log_to_db(tel, user_id, log_type, fails) ==
    IF fails THEN tel
    ELSE [tel EXCEPT !.logs = Append(@, [user_id |-> user_id, log_type |-> log_type,
                                         level |-> "INFO", timestamp |-> log_now])]

\* log_user_activity(user_id, action_type, details)
log_user_activity(tel, user_id, action_type, fails) ==
    IF fails THEN tel
    ELSE [tel EXCEPT !.user_activity = Append(@, [user_id |-> user_id,
                                                  action_type |-> action_type,
                                                  timestamp |-> log_now])]

\* log_user_input without the activity row.
log_user_input_noactivity(tel, user_id, file_fails, db_fails, activity_fails) ==
    LET a == log_to_file(tel, "INFO", "User input received", file_fails)
    IN  IF a.raises # NoExc THEN a
        ELSE [tel |-> log_to_db(a.tel, user_id, "user_input", db_fails),
              raises |-> NoExc]

\* log_user_input(user_id, user_input): the file line, the logs row, the
\* activity row.
log_user_input(tel, user_id, file_fails, db_fails, activity_fails) ==
    LET a == log_to_file(tel, "INFO", "User input received", file_fails)
    IN  IF a.raises # NoExc THEN a
        ELSE [tel |-> log_user_activity(log_to_db(a.tel, user_id, "user_input", db_fails),
                                        user_id, "message_sent", activity_fails),
              raises |-> NoExc]

\* log_ai_response(user_id, ai_response, response_length): the file line,
\* then the logs row.
log_ai_response(tel, user_id, file_fails, db_fails) ==
    LET a == log_to_file(tel, "INFO", "AI response generated", file_fails)
    IN  IF a.raises # NoExc THEN a
        ELSE [tel |-> log_to_db(a.tel, user_id, "ai_response", db_fails),
              raises |-> NoExc]

\* log_error(user_id, error_type, context): the error_logs row (its failure
\* caught), then the file line.
log_error(tel, user_id, error_type, error_context, db_fails, file_fails) ==
    LET t1 == IF db_fails THEN tel
              ELSE [tel EXCEPT !.error_logs =
                       Append(@, [user_id |-> user_id, error_type |-> error_type,
                                  context |-> error_context,
                                  timestamp |-> log_now])]
    IN  log_to_file(t1, "ERROR", "Error occurred", file_fails)

\* log_user_action(user_id, action, details): the file line, the logs row,
\* the activity row.
log_user_action(tel, user_id, action, file_fails, db_fails, activity_fails) ==
    LET a == log_to_file(tel, "INFO", "User action", file_fails)
    IN  IF a.raises # NoExc THEN a
        ELSE [tel |-> log_user_activity(log_to_db(a.tel, user_id, "user_action", db_fails),
                                        user_id, action, activity_fails),
              raises |-> NoExc]

\* log_api_call(user_id, api_service, request_data, response_data,
\* status_code, response_time_ms): the api_calls row and then, inside the
\* same try block (except sqlite3.Error), the file line.  calls is the
\* api_calls table; response_time_ms is << >> for None.
log_api_call(tel, calls, user_id, status_code, response_time_ms, db_fails, file_fails) ==
    IF db_fails THEN [tel |-> tel, api_calls |-> calls, raises |-> NoExc]
    ELSE LET a == log_to_file(tel, "INFO", "API call", file_fails)
         IN  [tel |-> a.tel,
              api_calls |-> Append(calls, [user_id |-> user_id,
                                           status_code |-> status_code,
                                           response_time_ms |-> response_time_ms,
                                           timestamp |-> log_now]),
              raises |-> a.raises]

\* SELECT MIN(timestamp): << >> for NULL.
MinTimestamp(rows) ==
    IF rows = << >> THEN << >>
    ELSE <<CHOOSE t \in {rows[i].timestamp : i \in 1..Len(rows)} :
              \A i \in 1..Len(rows) : t <= rows[i].timestamp>>

\* get_user_stats(user_id); fails: sqlite3.Error, caught.
get_user_stats(tel, user_id, fails) ==
    IF fails THEN EmptyDict
    ELSE LET mine == SelectSeq(tel.logs, LAMBDA r : r.user_id = user_id)
         IN  [total_messages |->
                  Len(SelectSeq(mine, LAMBDA r : r.log_type = "user_input")),
              total_responses |->
                  Len(SelectSeq(mine, LAMBDA r : r.log_type = "ai_response")),
              total_errors |->
                  Len(SelectSeq(tel.error_logs, LAMBDA r : r.user_id = user_id)),
              first_activity |-> MinTimestamp(mine),
              recent_activity_count |->
                  Len(SelectSeq(tel.user_activity,
                                LAMBDA r : r.user_id = user_id
                                           /\ r.timestamp > log_now - 1))]

RECURSIVE SumTimes(_)
SumTimes(rows) ==
    IF rows = << >> THEN 0 ELSE Head(rows).response_time_ms[1] + SumTimes(Tail(rows))

\* round(x) of Python 3 for x = a / n: to the nearest integer, a tie to the
\* even one.
round(a, n) ==
    LET q == a \div n
        r == a % n
    IN  IF 2 * r < n THEN q
        ELSE IF 2 * r > n THEN q + 1
        ELSE IF q % 2 = 0 THEN q ELSE q + 1

\* get_system_stats(); fails: sqlite3.Error, caught.
get_system_stats(tel, calls, fails) ==
    IF fails THEN EmptyDict
    ELSE LET timed == SelectSeq(calls, LAMBDA r : r.response_time_ms # << >>)
         IN  [total_users |->
                  Cardinality({tel.logs[i].user_id : i \in 1..Len(tel.logs)}),
              messages_today |->
                  Len(SelectSeq(tel.logs, LAMBDA r : r.log_type = "user_input"
                                                     /\ r.timestamp = log_now)),
              errors_today |->
                  Len(SelectSeq(tel.error_logs, LAMBDA r : r.timestamp = log_now)),
              avg_response_time_ms |->
                  IF timed = << >> \/ SumTimes(timed) = 0 THEN 0
                  ELSE round(SumTimes(timed), Len(timed))]

\* The days error records are kept.
error_days == 90

\* WHERE timestamp < datetime('now', '-{} days'.format(d)): a negative d
\* gives the modifier '--d days', which SQLite does not accept: datetime()
\* is NULL, the comparison is NULL and no row is selected.
OlderThan(rows, d) ==
    IF d < 0 THEN << >>
    ELSE SelectSeq(rows, LAMBDA r : r.timestamp < log_now - d)

NotOlderThan(rows, d) ==
    IF d < 0 THEN rows
    ELSE SelectSeq(rows, LAMBDA r : ~(r.timestamp < log_now - d))

\* cleanup_old_logs returning the rows deleted from all four tables.
cleanup_old_logs_total(tel, calls, days_to_keep, fails) ==
    IF fails THEN [tel |-> tel, api_calls |-> calls, ret |-> 0]
    ELSE [tel |-> [tel EXCEPT !.logs = NotOlderThan(@, days_to_keep),
                              !.user_activity = NotOlderThan(@, days_to_keep),
                              !.error_logs = NotOlderThan(@, error_days)],
          api_calls |-> NotOlderThan(calls, days_to_keep),
          ret |-> Len(OlderThan(tel.logs, days_to_keep))
                  + Len(OlderThan(tel.user_activity, days_to_keep))
                  + Len(OlderThan(calls, days_to_keep))
                  + Len(OlderThan(tel.error_logs, error_days))]

\* cleanup_old_logs(days_to_keep): the four DELETE statements, committed
\* together; the value returned is cursor.rowcount, the number of rows the
\* last statement deleted; fails: sqlite3.Error, caught, nothing committed.
cleanup_old_logs(tel, calls, days_to_keep, fails) ==
    IF fails THEN [tel |-> tel, api_calls |-> calls, ret |-> 0]
    ELSE [tel |-> [tel EXCEPT !.logs = NotOlderThan(@, days_to_keep),
                              !.user_activity = NotOlderThan(@, days_to_keep),
                              !.error_logs = NotOlderThan(@, error_days)],
          api_calls |-> NotOlderThan(calls, days_to_keep),
          ret |-> Len(OlderThan(tel.error_logs, error_days))]

(***************************************************************************)
(* The telemetry operations as calls of their own (logger.py 123-365).     *)
(* fault records which write of the call fails: the flat file, the SQLite  *)
(* statement of the operation (or of log_to_db), the statement of          *)
(* log_user_activity.                                                      *)
(***************************************************************************)
MaxRows == 2

\* The instants, in days, at which the telemetry operations are called.
LogDays == {0, 45, 135}

\* The values of days_to_keep: a negative one, none, the default, a row's
\* age and one beyond the ninety days of the error records.
DaysToKeep == {-1, 0, 30, 45, 140}

\* The user ids the writers are called for (the readers: every user id).
Writers == {"u1"}
ActionTypes == {"login"}
ErrorTypes == {"general_error"}
ResponseTimes == {<< >>, <<120>>}

notTelemetry == <<concvars, authvars, promptvars, clientvars, storevars, sessvars,
                  messages, shown, turns>>

TelFault(file, db, activity) == [file |-> file, db |-> db, activity |-> activity]

TelRows == Len(logs) + Len(user_activity) + Len(error_logs) + Len(api_calls)

\* Room for one more call that writes.
TelRoom == TelRows < MaxRows /\ Len(log_file) < MaxRows

\* The call o(a) has left the tables and the file as r.tel, returning x or
\* raising r.raises.
TelDone(o, a, r, x, f) ==
    /\ logs' = r.tel.logs
    /\ user_activity' = r.tel.user_activity
    /\ error_logs' = r.tel.error_logs
    /\ log_file' = r.tel.log_file
    /\ op' = o /\ arg' = a /\ ret' = x /\ exc' = r.raises /\ fault' = f
    /\ again' = FALSE
    /\ UNCHANGED log_now
    /\ UNCHANGED notTelemetry

\* Writers called one after the other, each with the day of its call: for
\* the reply (log_ai_response: a logs row and a file line), the activity
\* (log_user_activity: a user_activity row), an API call (log_api_call: an
\* api_calls row and a file line) and an error (log_error: an error_logs row
\* and a file line), none of them failing.
WriterKinds == {"log_ai_response", "log_user_activity", "log_api_call", "log_error"}

Writes ==
    {cs \in SeqUpTo(WriterKinds \X LogDays, MaxRows) :
        \A i \in 1..(Len(cs) - 1) : cs[i][2] <= cs[i + 1][2]}

DaysOf(cs, kind) ==
    LET sel == SelectSeq(cs, LAMBDA c : c[1] = kind)
    IN  [i \in 1..Len(sel) |-> sel[i][2]]

\* The telemetry store after the calls cs.
Written(cs) ==
    /\ log_now = IF cs = << >> THEN 0 ELSE cs[Len(cs)][2]
    /\ logs = [i \in 1..Len(DaysOf(cs, "log_ai_response")) |->
                  [user_id |-> "u1", log_type |-> "ai_response", level |-> "INFO",
                   timestamp |-> DaysOf(cs, "log_ai_response")[i]]]
    /\ user_activity = [i \in 1..Len(DaysOf(cs, "log_user_activity")) |->
                           [user_id |-> "u1", action_type |-> "login",
                            timestamp |-> DaysOf(cs, "log_user_activity")[i]]]
    /\ api_calls = [i \in 1..Len(DaysOf(cs, "log_api_call")) |->
                       [user_id |-> "u1", status_code |-> 200,
                        response_time_ms |-> <<120>>,
                        timestamp |-> DaysOf(cs, "log_api_call")[i]]]
    /\ error_logs = [i \in 1..Len(DaysOf(cs, "log_error")) |->
                        [user_id |-> "u1", error_type |-> "general_error",
                         context |-> [error |-> "e"],
                         timestamp |-> DaysOf(cs, "log_error")[i]]]
    /\ log_file =
          LET lined == SelectSeq(cs, LAMBDA c : c[1] # "log_user_activity")
          IN  [i \in 1..Len(lined) |->
                  IF lined[i][1] = "log_error"
                  THEN [level |-> "ERROR", message |-> "Error occurred"]
                  ELSE IF lined[i][1] = "log_api_call"
                       THEN [level |-> "INFO", message |-> "API call"]
                       ELSE [level |-> "INFO", message |-> "AI response generated"]]

\* Days pass between two calls.
LogTick ==
    /\ \E t \in LogDays : t > log_now /\ log_now' = t
    /\ UNCHANGED <<callvars, telemetry, api_calls>>
    /\ UNCHANGED notTelemetry

LogUserInput ==
    /\ TelRoom
    /\ \E user_id \in Writers, file \in BOOLEAN, db \in BOOLEAN, activity \in BOOLEAN :
        \E r \in {log_user_input(Tel(logs, user_activity, error_logs, log_file),
                                 user_id, file, db, activity)} :
            /\ ~file \/ (~db /\ ~activity)
            /\ TelDone("log_user_input", [user_id |-> user_id], r, None,
                       TelFault(file, db, activity))
            /\ UNCHANGED api_calls

LogAiResponse ==
    /\ TelRoom
    /\ \E user_id \in Writers, file \in BOOLEAN, db \in BOOLEAN :
        \E r \in {log_ai_response(Tel(logs, user_activity, error_logs, log_file),
                                  user_id, file, db)} :
            /\ ~file \/ ~db
            /\ TelDone("log_ai_response", [user_id |-> user_id], r, None,
                       TelFault(file, db, FALSE))
            /\ UNCHANGED api_calls

LogUserActivity ==
    /\ TelRoom
    /\ \E user_id \in Writers, action_type \in ActionTypes, activity \in BOOLEAN :
        \E r \in {[tel |-> log_user_activity(Tel(logs, user_activity, error_logs,
                                                 log_file),
                                             user_id, action_type, activity),
                   raises |-> NoExc]} :
            /\ TelDone("log_user_activity",
                       [user_id |-> user_id, action_type |-> action_type], r, None,
                       TelFault(FALSE, FALSE, activity))
            /\ UNCHANGED api_calls

LogUserAction ==
    /\ TelRoom
    /\ \E user_id \in Writers, action \in ActionTypes,
          file \in BOOLEAN, db \in BOOLEAN, activity \in BOOLEAN :
        \E r \in {log_user_action(Tel(logs, user_activity, error_logs, log_file),
                                  user_id, action, file, db, activity)} :
            /\ ~file \/ (~db /\ ~activity)
            /\ TelDone("log_user_action", [user_id |-> user_id, action |-> action],
                       r, None, TelFault(file, db, activity))
            /\ UNCHANGED api_calls

LogApiCall ==
    /\ TelRoom
    /\ \E user_id \in Writers, status_code \in {200},
          response_time_ms \in ResponseTimes, file \in BOOLEAN, db \in BOOLEAN :
        \E r \in {log_api_call(Tel(logs, user_activity, error_logs, log_file),
                               api_calls, user_id, status_code, response_time_ms,
                               db, file)} :
            /\ ~db \/ ~file
            /\ api_calls' = r.api_calls
            /\ TelDone("log_api_call",
                       [user_id |-> user_id, response_time_ms |-> response_time_ms],
                       r, None, TelFault(file, db, FALSE))

LogError ==
    /\ TelRoom
    /\ \E user_id \in Writers, error_type \in ErrorTypes,
          file \in BOOLEAN, db \in BOOLEAN :
        \E r \in {log_error(Tel(logs, user_activity, error_logs, log_file),
                            user_id, error_type, [error |-> "e"], db, file)} :
            /\ TelDone("log_error", [user_id |-> user_id, error_type |-> error_type],
                       r, None, TelFault(file, db, FALSE))
            /\ UNCHANGED api_calls

GetUserStats ==
    \E user_id \in UserIds, db \in BOOLEAN :
        /\ TelDone("get_user_stats", [user_id |-> user_id],
                   [tel |-> Tel(logs, user_activity, error_logs, log_file),
                    raises |-> NoExc],
                   get_user_stats(Tel(logs, user_activity, error_logs, log_file),
                                  user_id, db),
                   TelFault(FALSE, db, FALSE))
        /\ UNCHANGED api_calls

GetSystemStats ==
    \E db \in BOOLEAN :
        /\ TelDone("get_system_stats", None,
                   [tel |-> Tel(logs, user_activity, error_logs, log_file),
                    raises |-> NoExc],
                   get_system_stats(Tel(logs, user_activity, error_logs, log_file),
                                    api_calls, db),
                   TelFault(FALSE, db, FALSE))
        /\ UNCHANGED api_calls

CleanupOldLogs ==
    \E days_to_keep \in DaysToKeep, db \in BOOLEAN :
        \E r \in {cleanup_old_logs(Tel(logs, user_activity, error_logs, log_file),
                                   api_calls, days_to_keep, db)} :
            /\ api_calls' = r.api_calls
            /\ TelDone("cleanup_old_logs", [days_to_keep |-> days_to_keep],
                       [tel |-> r.tel, raises |-> NoExc], r.ret,
                       TelFault(FALSE, db, FALSE))

(***************************************************************************)
(* Orchestrator: the chat turn of main() (app.py 111-174), for a session   *)
(* whose user is identified and whose preferences are the snapshot the     *)
(* sidebar holds (the sidebar's own write of that snapshot is the store    *)
(* operation update_user_preferences).  Texts are sequences of characters. *)
(***************************************************************************)
SessionUser == "u1"

SidebarPreferences ==
    [budget_range |-> "Budget", travel_style |-> <<"Adventure", "Culture">>,
     preferred_climate |-> "Tropical", last_updated |-> "t1"]

Prompts == {<<"h", "i">>}

WelcomeMessage == [role |-> "assistant", content |-> <<"w">>]

\* Transcripts a session can hold when a turn starts: emptied by the clear
\* button, fresh (the welcome message), and after earlier turns that
\* succeeded or failed.
Transcripts ==
    LET u == [role |-> "user", content |-> <<"h", "i">>]
        a == [role |-> "assistant", content |-> <<"a">>]
    IN  { << >>, <<WelcomeMessage>>, <<WelcomeMessage, u, a>>,
          <<WelcomeMessage, u, u, a, u, a>> }

\* The places of a turn that write telemetry: log_user_input (113, its logs
\* row and its activity row), log_ai_response (159), log_error for a missing
\* text (165) and log_error in the exception handler (171).
FileSites == {"input", "response", "no_text", "handler"}
SqliteSites == {"input", "activity", "response", "no_text", "handler"}

\* What the completion call answers in a turn: a transport error, a server
\* error, a blank text and a text.
TurnOutcomes ==
    { [kind |-> "Timeout", status_code |-> 0,
       body |-> [shape |-> "not_json", content |-> << >>]],
      [kind |-> "response", status_code |-> 500,
       body |-> [shape |-> "not_json", content |-> << >>]],
      [kind |-> "response", status_code |-> 200,
       body |-> [shape |-> "content", content |-> <<" ">>]],
      [kind |-> "response", status_code |-> 200,
       body |-> [shape |-> "content", content |-> <<"a", " ">>]] }

\* `if response is not None:`
Truthy_not_none(r) == r # NoText

\* `if response:` - neither None nor the empty string.
Truthy(r) == r # NoText /\ r[1] # << >>

\* The completion call of lines 137-142, an exception of the client giving None.
Completion(h) ==
    LET r == get_response(h)
    IN  IF r.raises # NoExc THEN NoText ELSE r.value

\* What the environment does to one turn: the prompt typed, the answer of the
\* completion endpoint, the failure met by each store call and the telemetry
\* writes that fail.  A write the turn does not reach has no failure: the
\* inputs are listed by the path the turn takes.
TurnInput(prompt, h, save, file, sqlite) ==
    [prompt |-> prompt, h |-> h, save |-> save, file |-> file, sqlite |-> sqlite]

TextOutcomes == {h \in TurnOutcomes : Truthy(Completion(h))}

TurnInputs ==
    LET early == SUBSET {"input", "activity"}
        \* log_user_input raises at line 113
        \* (the endpoint is not called; h is what it would have answered)
        Aborted == {TurnInput(p, h, NoFault, {"input"}, {}) :
                       p \in Prompts, h \in TurnOutcomes}
        \* a text, log_ai_response returns
        Replied == {TurnInput(p, h, sv, {}, e \cup r) :
                       p \in Prompts, h \in TextOutcomes,
                       sv \in Faults(2), e \in early, r \in SUBSET {"response"}}
        \* a text, log_ai_response raises into the handler
        ReplyRaised == {TurnInput(p, h, sv, {"response"} \cup hf, e \cup hs) :
                       p \in Prompts, h \in TextOutcomes,
                       sv \in Faults(2), e \in early,
                       hf \in SUBSET {"handler"}, hs \in SUBSET {"handler"}}
        \* no text, log_error returns
        NoReply == {TurnInput(p, h, NoFault, {}, e \cup n) :
                       p \in Prompts, h \in TurnOutcomes \ TextOutcomes,
                       e \in early, n \in SUBSET {"no_text"}}
        \* no text, log_error raises into the handler
        NoReplyRaised == {TurnInput(p, h, NoFault, {"no_text"} \cup hf, e \cup ns) :
                       p \in Prompts, h \in TurnOutcomes \ TextOutcomes,
                       e \in early,
                       hf \in SUBSET {"handler"}, ns \in SUBSET {"no_text", "handler"}}
    IN  Aborted \cup Replied \cup ReplyRaised \cup NoReply \cup NoReplyRaised

\* The exception handler of lines 168-174.
turn_except(tel, e, i) ==
    log_error(tel, SessionUser, "general_error",
              [error |-> e, user_query |-> i.prompt],
              "handler" \in i.sqlite, "handler" \in i.file)

\* The telemetry write made first, the store write skipped when it raises.
store_then_log_reversed(s, i, t, tel, conversation_data) ==
    LET la == log_ai_response(tel, SessionUser, "response" \in i.file,
                              "response" \in i.sqlite)
    IN  [sv |-> IF la.raises # NoExc
                THEN [ret |-> FALSE, users |-> s.users,
                      conversations |-> s.conversations]
                ELSE save_conversation(s.users, s.conversations, t, SessionUser,
                                       conversation_data, i.save),
         la |-> la]

\* Lines 158-159: the conversation record to the primary store, then the
\* ai_response record to the telemetry store.
store_then_log(s, i, t, tel, conversation_data) ==
    [sv |-> save_conversation(s.users, s.conversations, t, SessionUser,
                              conversation_data, i.save),
     la |-> log_ai_response(tel, SessionUser, "response" \in i.file,
                            "response" \in i.sqlite)]

\* The flag computed on the history alone.
context_used_history(msgs) == Len(msgs) > 3

\* "context_used": len(st.session_state.messages) > 2, the transcript
\* holding the turn's user and assistant entries.
context_used(msgs) == Len(msgs) > 2

\* The turn of lines 111-174.  s holds the state before it (preferences,
\* messages, users, conversations, tel); the result holds the state after
\* it, the locals context and response, and the exception that leaves main().
turn(s, i, t, m) ==
    LET prefs == s.user_preferences
        li == log_user_input(s.tel, SessionUser, "input" \in i.file,
                             "input" \in i.sqlite, "activity" \in i.sqlite)
        msgs1 == Append(s.messages, [role |-> "user", content |-> i.prompt])
        history == LastN(msgs1, 5)
        ctx == build_context(prefs, history, i.prompt, m)
        resp == Completion(i.h)
        base == [messages |-> s.messages, users |-> s.users,
                 conversations |-> s.conversations, saved |-> FALSE,
                 tel |-> li.tel,
                 history |-> << >>, context |-> << >>, response |-> NoText,
                 shown |-> << >>, raises |-> li.raises]
    IN  IF li.raises # NoExc THEN base
        ELSE IF Truthy(resp)
        THEN LET msgs2 == Append(msgs1, [role |-> "assistant", content |-> resp[1]])
                 conversation_data ==
                     [timestamp |-> "t1", user_message |-> i.prompt,
                      assistant_response |-> resp[1],
                      context_used |-> context_used(msgs2)]
                 w == store_then_log(s, i, t, li.tel, conversation_data)
                 sv == w.sv
                 la == w.la
                 ok == [base EXCEPT !.messages = msgs2, !.users = sv.users,
                                    !.conversations = sv.conversations,
                                    !.saved = sv.ret,
                                    !.tel = la.tel, !.history = history,
                                    !.context = ctx, !.response = resp,
                                    !.shown = <<"reply">>]
             IN  IF la.raises = NoExc THEN ok
                 ELSE LET le == turn_except(la.tel, la.raises, i)
                      IN  [ok EXCEPT !.tel = le.tel,
                                     !.shown = <<"reply", "apology_error">>,
                                     !.raises = le.raises]
        ELSE LET le == log_error(li.tel, SessionUser, "groq_api_error",
                                 [user_query |-> i.prompt, context |-> ctx],
                                 "no_text" \in i.sqlite, "no_text" \in i.file)
                 no == [base EXCEPT !.messages = msgs1, !.tel = le.tel,
                                    !.history = history, !.context = ctx,
                                    !.response = resp,
                                    !.shown = <<"apology_no_response">>]
             IN  IF le.raises = NoExc THEN no
                 ELSE LET lh == turn_except(le.tel, le.raises, i)
                      IN  [no EXCEPT !.tel = lh.tel,
                                     !.shown = <<"apology_no_response", "apology_error">>,
                                     !.raises = lh.raises]

\* What the environment does to a quick-action turn: as for a typed turn,
\* without the writes of log_user_input, which the turn does not make.
QuickInputs ==
    {i \in TurnInputs : "input" \notin i.file
                         /\ i.sqlite \cap {"input", "activity"} = {}}

\* The quick-action turn of lines 203-249: the canned prompt a button left
\* in quick_query is appended to the transcript and answered.
quick_turn(s, i, t, m) ==
    LET prefs == s.user_preferences
        msgs1 == Append(s.messages, [role |-> "user", content |-> i.prompt])
        history == LastN(msgs1, 5)
        ctx == build_context(prefs, history, i.prompt, m)
        g == get_response(i.h)
        resp == g.value
        base == [messages |-> msgs1, users |-> s.users,
                 conversations |-> s.conversations, saved |-> FALSE,
                 tel |-> s.tel,
                 history |-> history, context |-> ctx, response |-> NoText,
                 shown |-> << >>, raises |-> NoExc]
    IN  IF g.raises # NoExc
        THEN LET le == turn_except(s.tel, g.raises, i)
             IN  [base EXCEPT !.tel = le.tel, !.shown = <<"apology_error">>,
                              !.raises = le.raises]
        ELSE IF Truthy(resp)
        THEN LET msgs2 == Append(msgs1, [role |-> "assistant", content |-> resp[1]])
                 conversation_data ==
                     [timestamp |-> "t1", user_message |-> i.prompt,
                      assistant_response |-> resp[1],
                      context_used |-> context_used(msgs2)]
                 w == store_then_log(s, i, t, s.tel, conversation_data)
                 sv == w.sv
                 la == w.la
                 ok == [base EXCEPT !.messages = msgs2, !.users = sv.users,
                                    !.conversations = sv.conversations,
                                    !.saved = sv.ret,
                                    !.tel = la.tel, !.response = resp,
                                    !.shown = <<"reply">>]
             IN  IF la.raises = NoExc THEN ok
                 ELSE LET le == turn_except(la.tel, la.raises, i)
                      IN  [ok EXCEPT !.tel = le.tel,
                                     !.shown = <<"reply", "apology_error">>,
                                     !.raises = le.raises]
        ELSE LET le == log_error(s.tel, SessionUser, "groq_api_error",
                                 [user_query |-> i.prompt, context |-> ctx],
                                 "no_text" \in i.sqlite, "no_text" \in i.file)
                 no == [base EXCEPT !.tel = le.tel, !.response = resp,
                                    !.shown = <<"apology_no_response">>]
             IN  IF le.raises = NoExc THEN no
                 ELSE LET lh == turn_except(le.tel, le.raises, i)
                      IN  [no EXCEPT !.tel = lh.tel,
                                     !.shown = <<"apology_no_response", "apology_error">>,
                                     !.raises = lh.raises]

TurnIdle ==
    /\ messages = << >>
    /\ shown = << >>
    /\ turns = 0
    /\ logs = << >> /\ user_activity = << >> /\ error_logs = << >> /\ log_file = << >>
    /\ api_calls = << >> /\ log_now = 0

TurnStart ==
    /\ user_preferences = SidebarPreferences
    /\ messages \in Transcripts
    /\ shown = << >>
    /\ turns = 0
    /\ logs = << >> /\ user_activity = << >> /\ error_logs = << >> /\ log_file = << >>
    /\ api_calls = << >> /\ log_now = 0

Turn ==
    /\ turns < MaxTurns
    /\ \E i \in TurnInputs, t \in Timestamps(db_now) :
        \E r \in {turn([user_preferences |-> user_preferences,
                       messages |-> messages, users |-> users,
                       conversations |-> conversations,
                       tel |-> Tel(logs, user_activity, error_logs, log_file)],
                      i, t, month)} :
            /\ r.saved \/ t = db_now
            /\ turns' = turns + 1
            /\ messages' = r.messages
            /\ shown' = r.shown
            /\ conversation_history' = r.history
            /\ user_query' = i.prompt
            /\ context' = r.context
            /\ http' = i.h
            /\ response' = r.response
            /\ users' = r.users
            /\ conversations' = r.conversations
            /\ db_now' = t
            /\ logs' = r.tel.logs
            /\ user_activity' = r.tel.user_activity
            /\ error_logs' = r.tel.error_logs
            /\ log_file' = r.tel.log_file
            /\ op' = "turn"
            /\ arg' = [prompt |-> i.prompt]
            /\ ret' = None
            /\ exc' = r.raises
            /\ fault' = [save |-> i.save, file |-> i.file, sqlite |-> i.sqlite]
            /\ again' = FALSE
            /\ UNCHANGED notTurn

QuickTurn ==
    /\ turns < MaxTurns
    /\ \E i \in QuickInputs, t \in Timestamps(db_now) :
        \E r \in {quick_turn([user_preferences |-> user_preferences,
                             messages |-> messages, users |-> users,
                             conversations |-> conversations,
                             tel |-> Tel(logs, user_activity, error_logs,
                                         log_file)],
                            i, t, month)} :
            /\ r.saved \/ t = db_now
            /\ turns' = turns + 1
            /\ messages' = r.messages
            /\ shown' = r.shown
            /\ conversation_history' = r.history
            /\ user_query' = i.prompt
            /\ context' = r.context
            /\ http' = i.h
            /\ response' = r.response
            /\ users' = r.users
            /\ conversations' = r.conversations
            /\ db_now' = t
            /\ logs' = r.tel.logs
            /\ user_activity' = r.tel.user_activity
            /\ error_logs' = r.tel.error_logs
            /\ log_file' = r.tel.log_file
            /\ op' = "quick_turn"
            /\ arg' = [prompt |-> i.prompt]
            /\ ret' = None
            /\ exc' = r.raises
            /\ fault' = [save |-> i.save, file |-> i.file, sqlite |-> i.sqlite]
            /\ again' = FALSE
            /\ UNCHANGED notTurn

vars == <<callvars, authvars, promptvars, clientvars, storevars, sessvars, turnvars,
          telextra, concvars>>

InitAuth == CallInit /\ AuthInit /\ PromptIdle /\ ClientIdle /\ StoreInit /\ SessionsIdle
    /\ TurnIdle

NextAuth ==
    \/ Tick
    \/ Login
    \/ Logout
    \/ IsAuthenticated
    \/ AuthenticateUser

SpecAuth == InitAuth /\ [][NextAuth]_vars

InitPrompt == CallInit /\ AuthInit /\ PromptInputs /\ ClientIdle /\ StoreInit /\ SessionsIdle
    /\ TurnIdle

NextPrompt == BuildContext

InitSeason == CallInit /\ AuthInit /\ SeasonInputs /\ ClientIdle /\ StoreInit /\ SessionsIdle
    /\ TurnIdle

NextSeason == BuildContext

SpecSeason == InitSeason /\ [][NextSeason]_vars

SpecPrompt == InitPrompt /\ [][NextPrompt]_vars

InitClient == CallInit /\ AuthInit /\ PromptIdle /\ ClientInputs /\ StoreInit /\ SessionsIdle
    /\ TurnIdle

NextClient == GetResponse

SpecClient == InitClient /\ [][NextClient]_vars

InitStore == CallInit /\ AuthInit /\ PromptIdle /\ ClientIdle /\ StoreInit /\ SessionsIdle
    /\ TurnIdle

NextStore ==
    \/ UpdateUserPreferences
    \/ GetUserData
    \/ SaveConversation
    \/ ClearUserConversations
    \/ GetConversationCount
    \/ GetUserAnalytics

SpecStore == InitStore /\ [][NextStore]_vars


(***************************************************************************)
(* Claims about the credential store (checked under SpecAuth).             *)
(***************************************************************************)

\* C2: after a successful login at T0 with no re-stamp since (stamp_at =
\* login_at) and no logout, an is_authenticated() check returns true at every
\* time up to T0+3599 and false at every time from T0+3601 on; the check that
\* detects the expiry leaves authenticated = False and no auth_time; and once
\* the expiry has been detected every later check or request returns false
\* and the state stays cleared, until a new successful login.
C2_SessionTimeout ==
    /\ (op = "is_authenticated" /\ login_at # NoTime /\ stamp_at = login_at) =>
          /\ (now - login_at <= 3599 => ret = TRUE)
          /\ (now - login_at >= 3601 =>
                 /\ ret = FALSE
                 /\ "authenticated" \in DOMAIN session_state
                 /\ session_state["authenticated"] = FALSE
                 /\ "auth_time" \notin DOMAIN session_state)
    /\ expired =>
          /\ (op \in {"is_authenticated", "authenticate_user"} => ret = FALSE)
          /\ session_state["authenticated"] = FALSE
          /\ "auth_time" \notin DOMAIN session_state

\* C2 witness: a check made exactly 3601 seconds after the login, with no
\* request in between, has returned false.
C2_Witness ==
    /\ op = "is_authenticated"
    /\ login_at # NoTime
    /\ stamp_at = login_at
    /\ now - login_at = 3601
    /\ ret = FALSE
    /\ expired

\* C3: a request (authenticate_user) on a session that was logged in and has
\* neither been logged out nor found expired succeeds exactly when at most
\* 3600 seconds have passed since the last login or successful request, and a
\* request that succeeds re-stamps auth_time to the current time; so the
\* session outlives any total elapsed time while the gaps stay within 3600s.
C3_SlidingExpiry ==
    [][(op' = "authenticate_user" /\ stamp_at # NoTime /\ ~expired) =>
          /\ (ret' = TRUE) <=> (now - stamp_at <= 3600)
          /\ (ret' = TRUE) =>
                /\ "auth_time" \in DOMAIN session_state'
                /\ session_state'["auth_time"] = now
                /\ session_state'["authenticated"] = TRUE
          /\ (ret' = FALSE) =>
                /\ session_state'["authenticated"] = FALSE
                /\ "auth_time" \notin DOMAIN session_state']_vars

\* C3 witness: a request succeeds, and re-stamps the session, more than two
\* timeouts after the login.
C3_Witness ==
    /\ op = "authenticate_user"
    /\ ret = TRUE
    /\ login_at # NoTime
    /\ now - login_at > 2 * 3600
    /\ stamp_at = now

\* C4: login(secret) returns true exactly when secret is the configured
\* password; a successful login sets authenticated = True and auth_time = now;
\* a failed login leaves the session state unchanged; and this holds after
\* any number of failed logins (there is no counter and no lockout).
C4_Login ==
    [][op' = "login" =>
          /\ ret' = (arg' = app_password)
          /\ (ret' = TRUE) =>
                /\ session_state'["authenticated"] = TRUE
                /\ session_state'["auth_time"] = now
          /\ (ret' = FALSE) => session_state' = session_state]_vars

\* C4 witness: a login succeeds after MaxFailed failed logins.
C4_Witness ==
    /\ op = "login"
    /\ ret = TRUE
    /\ failed = MaxFailed
    /\ session_state["authenticated"] = TRUE
    /\ session_state["auth_time"] = now


(***************************************************************************)
(* Claims about the prompt assembler (checked under SpecPrompt).           *)
(***************************************************************************)

\* The positions of the history that build_context may draw from: the last
\* four, of which those with role "user" or "assistant".
C1_Drawn(h) ==
    {i \in 1..Len(h) : i > Len(h) - 4 /\ h[i].role \in {"user", "assistant"}}

\* The k-th smallest member of a set of positions.
C1_Kth(S, k) == CHOOSE i \in S : Cardinality({j \in S : j <= i}) = k

\* C1: for every preference set, history and new message, build_context
\* returns a list whose first element has role "system", whose last element
\* is {role: "user", content: new message}, and whose elements in between
\* number at most 4, all have role "user" or "assistant", and are the entries
\* of those roles among the last four of the history, in the history's order.
C1_BuildContext ==
    op = "build_context" =>
        LET n == Len(context)
            mid == SubSeq(context, 2, n - 1)
            from == C1_Drawn(conversation_history)
        IN  /\ n >= 2
            /\ context[1].role = "system"
            /\ context[n] = [role |-> "user", content |-> user_query]
            /\ Len(mid) <= 4
            /\ \A i \in 1..Len(mid) : mid[i].role \in {"user", "assistant"}
            /\ Len(mid) = Cardinality(from)
            /\ \A k \in 1..Len(mid) :
                  mid[k] = [role |-> conversation_history[C1_Kth(from, k)].role,
                            content |-> conversation_history[C1_Kth(from, k)].content]

\* C1 witness: a history of five entries, the first of a kept role (cut by the
\* window) and one of the last four of another role (dropped by the filter).
C1_Witness ==
    /\ op = "build_context"
    /\ Len(conversation_history) = 5
    /\ conversation_history[1].role = "user"
    /\ conversation_history[3].role = "system"
    /\ Len(context) = 5
    /\ user_preferences # EmptyDict


(***************************************************************************)
(* Claims about the completion client (checked under SpecClient).          *)
(***************************************************************************)

\* t is the text c with its leading and trailing whitespace removed: c is t
\* between two runs of whitespace, and t neither starts nor ends with one.
C5_Trimmed(c, t) ==
    /\ \E i \in 0..Len(c) :
          /\ i + Len(t) <= Len(c)
          /\ \A k \in 1..Len(t) : t[k] = c[i + k]
          /\ \A k \in (1..i) \cup ((i + Len(t) + 1)..Len(c)) : c[k] \in Whitespace
    /\ t # << >> => t[1] \notin Whitespace /\ t[Len(t)] \notin Whitespace

\* C5: get_response returns the trimmed content of the first choice when the
\* endpoint answers 200 with a first choice that carries a text; for every
\* other outcome (another status, a transport error or timeout, a body
\* without choices, a malformed body) it returns None; and no exception
\* escapes it.
C5_GetResponse ==
    op = "get_response" =>
        /\ exc = NoExc
        /\ IF /\ http.kind = "response"
              /\ http.status_code = 200
              /\ http.body.shape = "content"
           THEN /\ response # NoText
                /\ C5_Trimmed(http.body.content, response[1])
           ELSE response = NoText

\* C5 witness: status 200 and a content with whitespace on both sides; the
\* text between is returned.
C5_Witness ==
    /\ op = "get_response"
    /\ http.kind = "response"
    /\ http.status_code = 200
    /\ http.body.shape = "content"
    /\ http.body.content = <<" ", "P", "\n">>
    /\ response = Some(<<"P">>)


InitSessions ==
    /\ CallInit /\ AuthInit /\ PromptIdle /\ ClientIdle /\ SessionsStoreInit
    /\ SessionsIdle /\ TurnIdle

NextSessions ==
    \/ CreateNewSession
    \/ SaveMessageToSession
    \/ DeleteSession

SpecSessions == InitSessions /\ [][NextSessions]_vars

\* The contents the session tables can have when an operation is called:
\* sessions of the users created and updated at times up to the clock's,
\* message_count the number of messages appended.
ListingInit ==
    /\ \E U \in {{"u1"}, UserIds} :
          /\ users = [x \in U |-> [preferences |-> dumps(EmptyDict)]]
          /\ \E S \in SUBSET SessionIds, t \in 0..MaxDbTime :
                \E owner \in [S -> U], at \in [S -> 0..t],
                   in \in SeqUpTo(S, MaxMessages) :
                    /\ db_now = t
                    /\ conversation_sessions =
                          [x \in S |->
                              [user_id |-> owner[x], title |-> None,
                               last_updated |-> at[x],
                               message_count |->
                                   Len(SelectSeq(in, LAMBDA y : y = x))]]
                    /\ conversation_messages =
                          [i \in 1..Len(in) |->
                              [session_id |-> in[i], user_id |-> owner[in[i]],
                               message_data |->
                                   dumps([role |-> "user", content |-> "hello"])]]
                    /\ issued = S
    /\ conversations = << >>
    /\ written = [u \in UserIds |-> << >>]

InitListing ==
    /\ CallInit /\ AuthInit /\ PromptIdle /\ ClientIdle /\ ListingInit /\ TurnIdle

\* One call that creates, appends to, renames or lists sessions.
NextListing ==
    /\ op = "init"
    /\ \/ CreateNewSession
       \/ SaveMessageToSession
       \/ UpdateSessionTitle
       \/ GetUserSessions

SpecListing == InitListing /\ [][NextListing]_vars

\* The contents the primary store can have when an operation is called:
\* users rows as the user upsert of save_conversation creates them,
\* conversation rows of those users, sessions owned by them and, in each
\* session, the messages its owner appended, counted by message_count.
PrimaryInit ==
    /\ db_now = 0
    /\ \E U \in {{"u1"}, UserIds} :
          /\ users = [x \in U |-> [preferences |-> dumps(EmptyDict)]]
          /\ \E owners \in SeqUpTo(U, MaxConversations), cd \in ConversationData :
                conversations = [i \in 1..Len(owners) |->
                                    [user_id |-> owners[i],
                                     conversation_data |-> dumps(cd),
                                     created_at |-> 0]]
          /\ \E S \in SUBSET SessionIds :
                \E owner \in [S -> U], in \in SeqUpTo(S, MaxMessages) :
                    /\ conversation_sessions =
                          [x \in S |->
                              [user_id |-> owner[x], title |-> "Travel Chat",
                               last_updated |-> 0,
                               message_count |->
                                   Len(SelectSeq(in, LAMBDA y : y = x))]]
                    /\ conversation_messages =
                          [i \in 1..Len(in) |->
                              [session_id |-> in[i], user_id |-> owner[in[i]],
                               message_data |->
                                   dumps([role |-> "user", content |-> "hello"])]]
                    /\ issued = S
    /\ written = [u \in UserIds |-> << >>]

InitPrimary ==
    /\ CallInit /\ AuthInit /\ PromptIdle /\ ClientIdle /\ PrimaryInit /\ TurnIdle

\* One call of an operation on the store as it stands.
NextPrimary ==
    /\ op = "init"
    /\ \/ GetUserData
       \/ UpdateUserPreferences
       \/ SaveConversation
       \/ ClearUserConversations
       \/ GetConversationCount
       \/ GetUserAnalytics
       \/ GetUserSessions
       \/ SaveMessageToSession
       \/ UpdateSessionTitle
       \/ DeleteSession
       \/ GetSessionInfo

SpecPrimary == InitPrimary /\ [][NextPrimary]_vars

InitTelemetry ==
    /\ CallInit /\ AuthInit /\ PromptIdle /\ ClientIdle /\ StoreInit /\ SessionsIdle
    /\ TurnIdle

NextTelemetry ==
    \/ LogUserInput
    \/ LogAiResponse
    \/ LogUserActivity
    \/ LogUserAction
    \/ LogApiCall
    \/ LogError
    \/ GetUserStats
    \/ GetSystemStats
    \/ CleanupOldLogs

SpecTelemetry == InitTelemetry /\ [][NextTelemetry]_vars

\* The rows the telemetry database holds after the writers in Writes were
\* called, each at its day, and what cleanup_old_logs does to them as the
\* days pass.
InitCleanup ==
    /\ CallInit /\ AuthInit /\ PromptIdle /\ ClientIdle /\ StoreInit /\ SessionsIdle
    /\ messages = << >> /\ shown = << >> /\ turns = 0
    /\ \E cs \in Writes : Written(cs)

NextCleanup ==
    \/ LogTick
    \/ CleanupOldLogs

SpecCleanup == InitCleanup /\ [][NextCleanup]_vars

InitTitle ==
    /\ CallInit /\ AuthInit /\ PromptIdle /\ ClientIdle /\ TitleInit /\ TurnIdle

\* The title of one first message.
NextTitle == op = "init" /\ AutoGenerateTitle

SpecTitle == InitTitle /\ [][NextTitle]_vars

InitTurn ==
    /\ CallInit /\ AuthInit /\ ClientIdle /\ StoreInit /\ SessionsIdle
    /\ month = 1 /\ conversation_history = << >> /\ user_query = "" /\ context = << >>
    /\ TurnStart

NextTurn == Turn

SpecTurn == InitTurn /\ [][NextTurn]_vars

\* A session in which the quick-action buttons are pressed.
NextQuick == QuickTurn

SpecQuick == InitTurn /\ [][NextQuick]_vars

(***************************************************************************)
(* Calls made at the same time.  Every call opens its own connection       *)
(* (get_connection) and with it its own transaction, at PostgreSQL's       *)
(* default isolation level READ COMMITTED: the rows a call has written are *)
(* seen by the others from its commit on, and a statement that writes a    *)
(* row another open transaction has written waits for that transaction to  *)
(* end and then works on the row as committed.  A call is taken statement  *)
(* by statement; txn holds, per caller, the call and the statement reached.*)
(***************************************************************************)
Callers == {"c1", "c2"}

\* No transaction has written the row.
Locked_never(calls, c, key) == FALSE

\* Another caller's open transaction has written the row of that key (the
\* session row for an append, the users row for a preferences upsert).
Locked(calls, c, key) ==
    \E d \in (DOMAIN calls) \ {c} : calls[d].pc = "written" /\ calls[d].key = key

\* The tables and the calls, as the steps of a call read and write them.
Store(u, sessions, rows, calls) ==
    [users |-> u, conversation_sessions |-> sessions,
     conversation_messages |-> rows, calls |-> calls]

\* The call of caller c returns; ret holds the value, << >> before that.
Returned(st, c, value) ==
    [st EXCEPT !.calls[c].pc = "returned", !.calls[c].ret = <<value>>]

\* save_message_to_session(session_id, user_id, role, content), one step of
\* caller c: the connection, the INSERT of the message, the UPDATE of the
\* session row (message_count read from the row as committed), the commit.
\* A waiting call is left where it is.
append_step(st, c, t) ==
    LET me == st.calls[c]
    IN  CASE me.pc = "start" ->
                IF me.fault = "connect" THEN Returned(st, c, FALSE)
                ELSE [st EXCEPT !.calls[c].pc = "connected"]
          [] me.pc = "connected" ->
                IF \/ me.fault = "stmt1"
                   \/ me.key \notin DOMAIN st.conversation_sessions
                   \/ me.user_id \notin DOMAIN st.users
                THEN Returned(st, c, FALSE)
                ELSE [st EXCEPT !.calls[c].pc = "inserted"]
          [] me.pc = "inserted" ->
                IF me.fault = "stmt2" THEN Returned(st, c, FALSE)
                ELSE IF Locked(st.calls, c, me.key) THEN st
                ELSE [st EXCEPT !.calls[c].pc = "written",
                                !.calls[c].message_count =
                                    st.conversation_sessions[me.key].message_count + 1]
          [] me.pc = "written" ->
                Returned(
                    [st EXCEPT !.conversation_sessions[me.key] =
                                   [@ EXCEPT !.last_updated = t,
                                             !.message_count = me.message_count],
                               !.conversation_messages =
                                   Append(@, [session_id |-> me.key,
                                              user_id |-> me.user_id,
                                              message_data |->
                                                  dumps([role |-> "user",
                                                         content |-> "hello"])])],
                    c, TRUE)
          [] OTHER -> st

\* The place of a commit among the commits made so far.
NextSeq(calls) ==
    1 + Cardinality({d \in DOMAIN calls : calls[d].seq > 0})

\* update_user_preferences(user_id, preferences), one step of caller c: the
\* connection, the INSERT ... ON CONFLICT (user_id) DO UPDATE, the commit.
upsert_step(st, c) ==
    LET me == st.calls[c]
    IN  CASE me.pc = "start" ->
                IF me.fault = "connect" THEN Returned(st, c, FALSE)
                ELSE [st EXCEPT !.calls[c].pc = "connected"]
          [] me.pc = "connected" ->
                IF me.fault = "stmt1" THEN Returned(st, c, FALSE)
                ELSE IF Locked(st.calls, c, me.key) THEN st
                ELSE [st EXCEPT !.calls[c].pc = "written"]
          [] me.pc = "written" ->
                Returned(
                    [st EXCEPT !.users =
                                   UpsertPreferences(@, me.key, dumps(me.preferences)),
                               !.calls[c].seq = NextSeq(st.calls)],
                    c, TRUE)
          [] OTHER -> st

\* The statements a call makes, the connection and the commit included.
AppendSteps == {"start", "connected", "inserted", "written"}
UpsertSteps == {"start", "connected", "written"}

\* Two callers append to sessions of a consistent store at the same time.
AppendInit ==
    /\ op = "init" /\ arg = None /\ ret = None /\ exc = NoExc
    /\ fault = NoFault /\ again = FALSE
    /\ db_now = 0
    /\ users = [x \in UserIds |-> [preferences |-> dumps(EmptyDict)]]
    /\ conversations = << >>
    /\ written = [u \in UserIds |-> << >>]
    /\ \E S \in {{"s1"}, SessionIds}, n \in 0..1 :
          /\ conversation_sessions =
                [x \in S |-> [user_id |-> "u1", title |-> None, last_updated |-> 0,
                              message_count |-> IF x = "s1" THEN n ELSE 0]]
          /\ conversation_messages =
                [i \in 1..n |-> [session_id |-> "s1", user_id |-> "u1",
                                 message_data |->
                                     dumps([role |-> "user", content |-> "hello"])]]
          /\ issued = S
    /\ txn \in [Callers -> [pc : {"start"}, key : SessionIds, user_id : UserIds,
                            fault : Faults(2), message_count : {0},
                            ret : {<< >>}]]

\* Caller c makes the step it has reached, unless it waits.
AppendStep(c, pc) ==
    /\ c \in DOMAIN txn /\ txn[c].pc = pc
    /\ \E r \in {append_step(Store(users, conversation_sessions,
                                   conversation_messages, txn), c, db_now)} :
          /\ r.calls # txn
          /\ txn' = r.calls
          /\ conversation_sessions' = r.conversation_sessions
          /\ conversation_messages' = r.conversation_messages
    /\ UNCHANGED <<callvars, db_now, users, conversations, written, issued>>
    /\ UNCHANGED <<authvars, promptvars, clientvars, turnvars, telextra>>

AppendConnect == \E c \in Callers : AppendStep(c, "start")
AppendInsert == \E c \in Callers : AppendStep(c, "connected")
AppendUpdate == \E c \in Callers : AppendStep(c, "inserted")
AppendCommit == \E c \in Callers : AppendStep(c, "written")

InitAppend == AuthInit /\ PromptIdle /\ ClientIdle /\ AppendInit /\ TurnIdle

NextAppend ==
    \/ AppendConnect
    \/ AppendInsert
    \/ AppendUpdate
    \/ AppendCommit

SpecAppend == InitAppend /\ [][NextAppend]_vars

\* The users table when the sessions write preferences: a row of the
\* column default for the first user, none for the second.
UpsertUsers == [x \in {"u1"} |-> [preferences |-> dumps(EmptyDict)]]

\* Two sessions write preference snapshots at the same time.
UpsertInit ==
    /\ op = "init" /\ arg = None /\ ret = None /\ exc = NoExc
    /\ fault = NoFault /\ again = FALSE
    /\ db_now = 0
    /\ users = UpsertUsers
    /\ conversations = << >>
    /\ written = [u \in UserIds |-> << >>]
    /\ txn \in [Callers -> [pc : {"start"}, key : UserIds,
                            preferences : PreferenceSets, fault : Faults(1),
                            seq : {0}, ret : {<< >>}]]

UpsertStep(c, pc) ==
    /\ c \in DOMAIN txn /\ txn[c].pc = pc
    /\ \E r \in {upsert_step(Store(users, conversation_sessions,
                                   conversation_messages, txn), c)} :
          /\ r.calls # txn
          /\ txn' = r.calls
          /\ users' = r.users
    /\ UNCHANGED <<callvars, db_now, conversations, written, sessvars>>
    /\ UNCHANGED <<authvars, promptvars, clientvars, turnvars, telextra>>

UpsertConnect == \E c \in Callers : UpsertStep(c, "start")
UpsertWrite == \E c \in Callers : UpsertStep(c, "connected")
UpsertCommit == \E c \in Callers : UpsertStep(c, "written")

InitUpsert ==
    AuthInit /\ PromptIdle /\ ClientIdle /\ UpsertInit /\ SessionsIdle /\ TurnIdle

NextUpsert ==
    \/ UpsertConnect
    \/ UpsertWrite
    \/ UpsertCommit

SpecUpsert == InitUpsert /\ [][NextUpsert]_vars

(***************************************************************************)
(* Claims about the primary store (checked under SpecStore).  A claim      *)
(* about what an operation does speaks of a call that meets no failure     *)
(* (fault = NoFault); what a call under a failure returns is a matter of   *)
(* its own.                                                                *)
(***************************************************************************)

\* C6: with the store reachable, get_user_data(u) returns as preferences
\* exactly the snapshot P of the last update_user_preferences(u, P) that
\* returned True, whatever was stored before and whether or not the user row
\* existed; in particular right after that update.
C6_LastWriteWins ==
    (op = "get_user_data" /\ fault = NoFault /\ written[arg.user_id] # << >>) =>
        ret.preferences = written[arg.user_id][1]

\* C6 witness: the partial snapshot, the last one written for a user, is read
\* back for that user, who also has conversation rows.
C6_Witness ==
    /\ op = "get_user_data"
    /\ fault = NoFault
    /\ arg.user_id = "u1"
    /\ written["u1"] = <<[budget_range |-> "Luxury"]>>
    /\ ret.preferences = [budget_range |-> "Luxury"]
    /\ ret.conversations # << >>

\* The rows of the conversations table that are not user_id's.
C7_RowsOfOthers(rows, user_id) == SelectSeq(rows, LAMBDA r : r.user_id # user_id)

\* C7: a clear_user_conversations(u) call that meets no failure returns True,
\* leaves no conversation row of u and leaves the rows of every other user as
\* they were; a second such call right after the first returns True again
\* and changes nothing.
C7_ClearIdempotent ==
    [][(op' = "clear_user_conversations" /\ fault' = NoFault) =>
          /\ ret' = TRUE
          /\ RowsOf(conversations', arg'.user_id) = << >>
          /\ C7_RowsOfOthers(conversations', arg'.user_id)
                = C7_RowsOfOthers(conversations, arg'.user_id)
          /\ again' => (ret = TRUE /\ conversations' = conversations)]_vars

\* C7 witness: the second of two successive clears of one user has returned
\* True, while the other user still has rows.
C7_Witness ==
    /\ op = "clear_user_conversations"
    /\ again
    /\ ret = TRUE
    /\ RowsOf(conversations, arg.user_id) = << >>
    /\ conversations # << >>

\* C8: for a user with no conversation row, get_conversation_count returns 0
\* and get_user_analytics reports total_conversations 0 with first_interaction
\* and last_interaction absent (calls that meet no failure).
C8_ZeroRows ==
    (fault = NoFault /\ op \in {"get_conversation_count", "get_user_analytics"}) =>
        (RowsOf(conversations, arg.user_id) = << >> =>
            IF op = "get_conversation_count" THEN ret = 0
            ELSE /\ ret.total_conversations = 0
                 /\ ret.first_interaction = << >>
                 /\ ret.last_interaction = << >>)

\* C8 witness: the analytics of a user who has a user row and no conversation
\* row, while another user has conversation rows.
C8_Witness ==
    /\ op = "get_user_analytics"
    /\ fault = NoFault
    /\ arg.user_id \in DOMAIN users
    /\ RowsOf(conversations, arg.user_id) = << >>
    /\ conversations # << >>
    /\ ret.total_conversations = 0
    /\ ret.first_interaction = << >>

(***************************************************************************)
(* Claims about the session store (checked under SpecSessions).            *)
(***************************************************************************)

\* C9: in every state reached by create_new_session, save_message_to_session
\* (succeeding or failing at either statement) and delete_session calls, the
\* message_count of each session row equals the number of message rows
\* stored for that session.
C9_MessageCount ==
    \A s \in DOMAIN conversation_sessions :
        conversation_sessions[s].message_count
            = Len(MessagesOf(conversation_messages, s))

(***************************************************************************)
(* Claims about the chat turn (checked under SpecTurn).                    *)
(***************************************************************************)

\* The rows of the logs table that record a reply.
C10_AiResponses(rows) == SelectSeq(rows, LAMBDA r : r.log_type = "ai_response")

\* C10: when the completion call of a turn yields text (the primary store and
\* the telemetry database answering), the turn appends the user's message
\* and exactly one assistant entry holding that text to the transcript,
\* writes exactly one conversation record holding the message and the reply
\* to the primary store, writes one ai_response telemetry record and writes
\* no error telemetry record.
C10_SuccessTurn ==
    [][(op' = "turn" /\ Truthy(response')
           /\ fault'.save = NoFault /\ fault'.sqlite = {}) =>
          /\ messages' = messages
                \o <<[role |-> "user", content |-> arg'.prompt],
                     [role |-> "assistant", content |-> response'[1]]>>
          /\ Len(conversations') = Len(conversations) + 1
          /\ SubSeq(conversations', 1, Len(conversations)) = conversations
          /\ LET row == conversations'[Len(conversations')]
                 data == loads(row.conversation_data)
             IN  /\ row.user_id = SessionUser
                 /\ data.user_message = arg'.prompt
                 /\ data.assistant_response = response'[1]
          /\ Len(C10_AiResponses(logs')) = Len(C10_AiResponses(logs)) + 1
          /\ error_logs' = error_logs]_vars

\* The turn just handled has failed: the completion gave no text, or a step
\* of the turn raised (the only step that raises is a write to the flat file).
C11_Failed == op = "turn" /\ (~Truthy(response) \/ fault.file # {})

\* The error records a step has added.
C11_NewErrors(before, after) == SubSeq(after, Len(before) + 1, Len(after))

\* C11: when a turn fails, because the completion yields no text or because
\* a step of the turn raises (the telemetry database answering), the
\* orchestrator shows one fixed apology, writes an error telemetry record
\* that carries the failing query and the prompt that was sent, appends no
\* assistant entry to the transcript (the user's message only) and writes no
\* conversation record.
C11_FailedTurn ==
    [][(C11_Failed' /\ fault'.sqlite = {}) =>
          /\ shown' \in {<<"apology_no_response">>, <<"apology_error">>}
          /\ \E k \in 1..Len(C11_NewErrors(error_logs, error_logs')) :
                LET c == C11_NewErrors(error_logs, error_logs')[k].context
                IN  /\ "user_query" \in DOMAIN c /\ c.user_query = arg'.prompt
                    /\ "context" \in DOMAIN c /\ c.context = context'
          /\ messages' = Append(messages, [role |-> "user", content |-> arg'.prompt])
          /\ conversations' = conversations]_vars

\* C12: no exception leaves the orchestrator's handling of a turn, whatever
\* the completion, the primary store and the telemetry writes do.
C12_NothingEscapes == op = "turn" => exc = NoExc

\* C13: the two stores are independent within a turn.  In a turn whose
\* completion yielded a text, the conversation record is written exactly
\* when the primary store accepts it, whichever telemetry writes fail; and
\* the ai_response telemetry record is written exactly when the telemetry
\* store accepts it, whether or not the primary store accepted the
\* conversation record.
C13_StoresIndependent ==
    [][(op' = "turn" /\ Truthy(response')) =>
          /\ IF fault'.save = NoFault
             THEN Len(conversations') = Len(conversations) + 1
             ELSE conversations' = conversations
          /\ IF "response" \notin (fault'.file \cup fault'.sqlite)
             THEN Len(C10_AiResponses(logs')) = Len(C10_AiResponses(logs)) + 1
             ELSE C10_AiResponses(logs') = C10_AiResponses(logs)]_vars

\* C13 witness: a turn whose completion yielded a text and whose telemetry
\* write of the reply failed on the flat file, after telemetry database
\* failures on the input records; the conversation record is in the primary
\* store.
C13_Witness ==
    /\ op = "turn"
    /\ Truthy(response)
    /\ fault.save = NoFault
    /\ "response" \in fault.file
    /\ {"input", "activity"} \subseteq fault.sqlite
    /\ Len(conversations) = 1
    /\ C10_AiResponses(logs) = << >>

\* Every conversation row has its users row (the foreign key of database.py
\* 75-84).
C16_RowsHaveUsers ==
    \A i \in 1..Len(conversations) : conversations[i].user_id \in DOMAIN users

\* C16: in every state reached by save_conversation,
\* update_user_preferences and clear_user_conversations, calls failing at
\* the connection or at either statement included, every conversation row
\* belongs to a user row that exists; and a save_conversation that returns
\* True has added exactly one conversation row (the one it was given, for
\* the user it was given, at the end), one that returns False none.
C16_StoreInvariant ==
    /\ []C16_RowsHaveUsers
    /\ [][op' = "save_conversation" =>
             IF ret'
             THEN /\ Len(conversations') = Len(conversations) + 1
                  /\ SubSeq(conversations', 1, Len(conversations)) = conversations
                  /\ conversations'[Len(conversations')].user_id = arg'.user_id
                  /\ conversations'[Len(conversations')].conversation_data
                        = dumps(arg'.conversation_data)
             ELSE conversations' = conversations]_vars

\* C16 witness: save_conversation has returned True for a user whose
\* preferences were never written: the users row its conversation row
\* belongs to is the one the upsert created.
C16_Witness ==
    /\ op = "save_conversation" /\ ret = TRUE
    /\ written[arg.user_id] = << >>
    /\ \E i \in 1..Len(conversations) : conversations[i].user_id = arg.user_id
    /\ arg.user_id \in DOMAIN users

(***************************************************************************)
(* Claims about the primary store under failures (checked under            *)
(* SpecPrimary, which applies the operations of database.py and of the     *)
(* session manager to a populated store).                                  *)
(***************************************************************************)

\* What an operation of the primary store returns when it fails.
C14_Benign(o) ==
    IF o = "get_user_data" THEN [preferences |-> EmptyDict, conversations |-> << >>]
    ELSE IF o = "get_conversation_count" THEN 0
    ELSE IF o = "get_user_analytics" THEN EmptyDict
    ELSE IF o \in {"get_user_sessions", "get_session_info"} THEN << >>
    ELSE FALSE

C14_Tables == <<users, conversations, conversation_sessions, conversation_messages>>

\* C14: every operation of the primary store (get_user_data,
\* update_user_preferences, save_conversation, clear_user_conversations,
\* get_conversation_count, get_user_analytics, and the session manager's
\* list, append, rename, delete and info) that cannot open the connection or
\* meets a failing statement (also an append refused by a foreign key)
\* returns the empty, false or zero result of its kind, raises nothing and
\* leaves the rows of all four tables as they were before the call.
C14_FailureIsBenign ==
    [][(fault' # NoFault \/ (op' = "save_message_to_session" /\ ret' = FALSE)) =>
          /\ ret' = C14_Benign(op')
          /\ exc' = NoExc
          /\ C14_Tables' = C14_Tables]_vars

\* C14 witness: save_conversation for a user id that has no users row has
\* failed at its second statement (the insert, after the user upsert) in a
\* store that holds rows in all four tables: it returned False and the user
\* id still has no row.
C14_Witness ==
    /\ op = "save_conversation" /\ fault = "stmt2" /\ ret = FALSE
    /\ arg.user_id \notin DOMAIN users
    /\ conversations # << >> /\ conversation_messages # << >>
    /\ conversation_sessions # EmptyDict

(***************************************************************************)
(* Claims about the season (checked under SpecSeason).                     *)
(***************************************************************************)

\* The season of each month, January first.
C18_Seasons ==
    <<"winter", "winter", "spring", "spring", "spring", "summer",
      "summer", "summer", "autumn", "autumn", "autumn", "winter">>

\* C18: the season named in the system prompt is a total function of the
\* month alone: in each of the 12 months, whatever the preferences, the
\* history and the query, months 12, 1, 2 give winter, 3, 4, 5 spring,
\* 6, 7, 8 summer and 9, 10, 11 autumn.
C18_SeasonOfMonth ==
    op = "build_context" =>
        /\ month \in 1..12
        /\ context[1].role = "system"
        /\ context[1].content[2] = C18_Seasons[month]
        /\ _get_current_season(month) = C18_Seasons[month]

\* C18 witness: a context assembled in December, for a user with
\* preferences, names winter.
C18_Witness ==
    /\ op = "build_context" /\ month = 12
    /\ user_preferences # EmptyDict
    /\ context[1].content[2] = "winter"

(***************************************************************************)
(* Claims about auto-titling (checked under SpecTitle).                    *)
(***************************************************************************)

\* The positions at which a word of text starts, and at which one ends.
C17_Starts(text) ==
    {i \in 1..Len(text) : text[i] \notin Whitespace
                          /\ (i = 1 \/ text[i - 1] \in Whitespace)}
C17_Ends(text) ==
    {i \in 1..Len(text) : text[i] \notin Whitespace
                          /\ (i = Len(text) \/ text[i + 1] \in Whitespace)}
\* The k-th smallest element of S.
C17_Nth(S, k) == CHOOSE x \in S : Cardinality({y \in S : y < x}) = k - 1

\* The words k..n of text, a single space between two of them.
RECURSIVE C17_Words(_, _, _)
C17_Words(text, k, n) ==
    IF k > n THEN << >>
    ELSE SubSeq(text, C17_Nth(C17_Starts(text), k), C17_Nth(C17_Ends(text), k))
         \o (IF k < n THEN <<" ">> ELSE << >>)
         \o C17_Words(text, k + 1, n)

\* The first six words of text (all of them when there are fewer).
C17_FirstSix(text) ==
    C17_Words(text, 1, IF Cardinality(C17_Starts(text)) > 6 THEN 6
                       ELSE Cardinality(C17_Starts(text)))

\* C17: for every first message, with j its first 6 whitespace-separated
\* words joined by single spaces, auto_generate_title returns the first 47
\* characters of j followed by "..." when j is longer than 50 characters,
\* the date-stamped default title "Travel Chat - mm/dd" when j is shorter
\* than 10 characters (the empty message included) and j itself otherwise;
\* the title is 10 to 50 characters long, and it is returned whether the
\* store update succeeded or failed.
C17_AutoTitle ==
    [][op' = "auto_generate_title" =>
          \E j \in {C17_FirstSix(arg'.first_message)} :
              /\ Len(j) > 50 => ret' = SubSeq(j, 1, 47) \o <<".", ".", ".">>
              /\ Len(j) < 10 =>
                    /\ Len(ret') = 19
                    /\ SubSeq(ret', 1, 14) = TravelChat
                    /\ \E d \in Dates : SubSeq(ret', 15, 19) = strftime(d)
              /\ (Len(j) >= 10 /\ Len(j) <= 50) => ret' = j
              /\ Len(ret') >= 10 /\ Len(ret') <= 50]_vars

\* C17 witness: a first message of seven words, whose first six joined are
\* longer than 50 characters, was titled while the store update failed: the
\* title of 50 characters ending in "..." was returned and the session
\* keeps its old title.
C17_Witness ==
    /\ op = "auto_generate_title" /\ fault = "stmt1"
    /\ Cardinality(C17_Starts(arg.first_message)) = 7
    /\ Len(ret) = 50 /\ SubSeq(ret, 48, 50) = <<".", ".", ".">>
    /\ arg.session_id \in DOMAIN conversation_sessions
    /\ conversation_sessions[arg.session_id].title # ret

(***************************************************************************)
(* Claims about the telemetry store (checked under SpecTelemetry, the      *)
(* writers and readers called one after the other, and under SpecCleanup,  *)
(* the clean-up of rows of different ages).                                *)
(***************************************************************************)

C15_Operations ==
    {"log_user_input", "log_ai_response", "log_user_activity", "log_user_action",
     "log_api_call", "log_error", "get_user_stats", "get_system_stats",
     "cleanup_old_logs"}

\* C15: no telemetry writer or reader (log_user_input, log_ai_response,
\* log_user_activity, log_user_action, log_api_call, log_error,
\* get_user_stats, get_system_stats, cleanup_old_logs) lets an error reach
\* its caller, whichever of its writes to the telemetry database or to the
\* flat log file fails.
C15_NothingPropagates == op \in C15_Operations => exc = NoExc

\* The rows of a table that are at most d days old.
C19_Kept(rows, d) == SelectSeq(rows, LAMBDA r : log_now - r.timestamp <= d)

\* The error records the step removes.
C19_RemovedErrors ==
    {error_logs[i].timestamp : i \in 1..Len(error_logs)}
        \ {error_logs'[i].timestamp : i \in 1..Len(error_logs')}

\* C19: for every value d of days_to_keep, a call cleanup_old_logs(d) (a
\* step that is not the passing of days) that meets no failure deletes from logs, user_activity and api_calls the rows older
\* than d days and keeps the others, deletes from error_logs the rows older
\* than 90 days and keeps the others, and so removes no error record while
\* it keeps a row of the same age in one of the other three tables.
C19_Cleanup ==
    [][(op' = "cleanup_old_logs" /\ log_now' = log_now /\ ~fault'.db) =>
          /\ logs' = C19_Kept(logs, arg'.days_to_keep)
          /\ user_activity' = C19_Kept(user_activity, arg'.days_to_keep)
          /\ api_calls' = C19_Kept(api_calls, arg'.days_to_keep)
          /\ error_logs' = C19_Kept(error_logs, 90)
          /\ \A t \in C19_RemovedErrors :
                /\ \A i \in 1..Len(logs') : logs'[i].timestamp # t
                /\ \A i \in 1..Len(user_activity') : user_activity'[i].timestamp # t
                /\ \A i \in 1..Len(api_calls') : api_calls'[i].timestamp # t]_vars

C20_Writers ==
    {"log_user_input", "log_ai_response", "log_user_activity", "log_user_action",
     "log_api_call", "log_error"}

\* new is old with n rows (lines) appended.
C20_Appended(old, new, n) ==
    /\ Len(new) = Len(old) + n
    /\ SubSeq(new, 1, Len(old)) = old

\* The step appends to logs, user_activity, api_calls, error_logs and the
\* flat file as many rows (lines) as n says, in this order.
C20_Appends(n) ==
    /\ C20_Appended(logs, logs', n[1])
    /\ C20_Appended(user_activity, user_activity', n[2])
    /\ C20_Appended(api_calls, api_calls', n[3])
    /\ C20_Appended(error_logs, error_logs', n[4])
    /\ C20_Appended(log_file, log_file', n[5])

\* A writer call all of whose writes succeed.
C20_Written == op' \in C20_Writers /\ fault' = TelFault(FALSE, FALSE, FALSE)

\* C20 as stated: each telemetry writer call (all of its writes succeeding)
\* appends exactly one row to its own table and changes no other table
\* (log_user_input, log_ai_response, log_user_action: logs;
\* log_user_activity: user_activity; log_api_call: api_calls; log_error:
\* error_logs), never updates or deletes an existing row, and a line is
\* appended to the flat log file exactly for the input, response and action
\* writers.
C20_OneRowOwnTable ==
    [][C20_Written =>
          C20_Appends(
              IF op' \in {"log_user_input", "log_ai_response", "log_user_action"}
              THEN <<1, 0, 0, 0, 1>>
              ELSE IF op' = "log_user_activity" THEN <<0, 1, 0, 0, 0>>
              ELSE IF op' = "log_api_call" THEN <<0, 0, 1, 0, 0>>
              ELSE <<0, 0, 0, 1, 0>>)]_vars

\* C20 amended: a telemetry writer call all of whose writes succeed appends
\* one row to logs and one to user_activity (log_user_input,
\* log_user_action), one row to logs (log_ai_response), to user_activity
\* (log_user_activity), to api_calls (log_api_call) or to error_logs
\* (log_error), and changes no other table; it appends one line to the flat
\* log file unless it is log_user_activity, which appends none; the logs row
\* carries the writer's log type; and no writer call, failing or not,
\* updates or deletes an existing row or line.
C20_RowsPerWriter ==
    [][op' \in C20_Writers =>
          /\ C20_Written =>
                /\ C20_Appends(
                      IF op' \in {"log_user_input", "log_user_action"}
                      THEN <<1, 1, 0, 0, 1>>
                      ELSE IF op' = "log_ai_response" THEN <<1, 0, 0, 0, 1>>
                      ELSE IF op' = "log_user_activity" THEN <<0, 1, 0, 0, 0>>
                      ELSE IF op' = "log_api_call" THEN <<0, 0, 1, 0, 1>>
                      ELSE <<0, 0, 0, 1, 1>>)
                /\ op' = "log_user_input" => logs'[Len(logs')].log_type = "user_input"
                /\ op' = "log_ai_response" => logs'[Len(logs')].log_type = "ai_response"
                /\ op' = "log_user_action" => logs'[Len(logs')].log_type = "user_action"
          /\ \E n \in [1..5 -> {0, 1}] : C20_Appends(n)]_vars

\* C20 witness: log_user_input, all of its writes succeeding, was called on
\* a store that already held a logs row and a file line: logs holds two
\* rows, user_activity one, the file two lines.
C20_Witness ==
    /\ op = "log_user_input" /\ fault = TelFault(FALSE, FALSE, FALSE)
    /\ Len(logs) = 2 /\ logs[2].log_type = "user_input"
    /\ Len(user_activity) = 1 /\ user_activity[1].action_type = "message_sent"
    /\ Len(log_file) = 2

\* C30: the number cleanup_old_logs returns is the number of rows its last
\* DELETE statement removed from error_logs, not the number removed from
\* the four tables together; it is 0, and no row is removed, when the
\* telemetry database raises an error.
C30_ReturnedCount ==
    [][(op' = "cleanup_old_logs" /\ log_now' = log_now) =>
          IF fault'.db
          THEN ret' = 0 /\ UNCHANGED <<logs, user_activity, api_calls, error_logs>>
          ELSE ret' = Len(error_logs) - Len(error_logs')]_vars

\* C30 witness: a cleanup_old_logs that met no error returned 0 after it
\* had removed the logs row of a reply (whose line is in the flat file)
\* and kept an error record.
C30_Witness ==
    /\ op = "cleanup_old_logs" /\ ~fault.db /\ ret = 0
    /\ logs = << >> /\ error_logs # << >>
    /\ \E i \in 1..Len(log_file) : log_file[i].message = "AI response generated"

(***************************************************************************)
(* Further claims about the session store (checked under SpecSessions).    *)
(***************************************************************************)

\* C22: delete_session(s, u) is owner-gated.  A call that meets no failure,
\* when u owns session s, removes the session row and every message of s,
\* whatever user id each was stored under, so that get_session_info(s)
\* returns nothing and get_session_messages(s) is empty afterwards; when u
\* does not own s, it removes neither the session row nor any of its
\* messages.
C22_OwnerGated ==
    [][(op' = "delete_session" /\ fault' = NoFault) =>
          LET s == arg'.session_id
              u == arg'.user_id
          IN  IF s \in DOMAIN conversation_sessions
                 /\ conversation_sessions[s].user_id = u
              THEN /\ s \notin DOMAIN conversation_sessions'
                   /\ MessagesOf(conversation_messages', s) = << >>
                   /\ get_session_info(conversation_sessions', s, NoFault) = << >>
                   /\ get_session_messages(conversation_messages', s, NoFault) = << >>
              ELSE /\ conversation_sessions' = conversation_sessions
                   /\ MessagesOf(conversation_messages', s)
                         = MessagesOf(conversation_messages, s)]_vars

\* The identifiers handed out that have no session row.
C29_Dangling == issued \ DOMAIN conversation_sessions

\* C29: create_new_session always returns a fresh session identifier, also
\* when the connection cannot be opened or the insert fails (the user
\* having no users row); in that case no session row exists for the
\* identifier returned.  For every identifier without a session row,
\* get_session_info returns nothing, save_message_to_session returns False
\* for every user and stores no message, get_user_sessions does not list it
\* for any user, and no later call gives it a session row.
C29_CreateFails ==
    [][/\ op' = "create_new_session" =>
             /\ ret' \notin issued /\ ret' \in issued'
             /\ (fault' # NoFault \/ arg'.user_id \notin DOMAIN users) =>
                   /\ ret' \notin DOMAIN conversation_sessions'
                   /\ conversation_sessions' = conversation_sessions
       /\ \A s \in C29_Dangling' :
             /\ get_session_info(conversation_sessions', s, NoFault) = << >>
             /\ \A u \in UserIds :
                   /\ LET r == save_message_to_session(
                                   users', conversation_sessions',
                                   conversation_messages', db_now', s, u,
                                   "user", "hello", NoFault)
                      IN  /\ r.ret = FALSE
                          /\ r.conversation_messages = conversation_messages'
                   /\ \A q \in SessionOrders(conversation_sessions', u) :
                         \A i \in 1..Len(q) :
                            i <= 20 =>
                               get_user_sessions(conversation_sessions', u, 20, q,
                                                 NoFault)[i].session_id # s
       /\ \A s \in C29_Dangling : s \notin DOMAIN conversation_sessions']_vars

\* C29 witness: create_new_session, the connection and the statement in
\* order, was called for a user without a users row while another session
\* exists: the identifier returned is new and has no session row.
C29_Witness ==
    /\ op = "create_new_session" /\ fault = NoFault
    /\ arg.user_id \notin DOMAIN users
    /\ ret \in C29_Dangling
    /\ conversation_sessions # EmptyDict

\* The sessions that can come first in the list of user_id.
C21_Firsts(sessions, user_id) ==
    {q[1] : q \in {x \in SessionOrders(sessions, user_id) : Len(x) > 0}}

\* get_user_sessions returned at most limit sessions, all owned by the user,
\* in order of non-increasing last_updated.
C21_Listed ==
    (op' = "get_user_sessions" /\ fault' = NoFault) =>
        /\ Len(ret') <= arg'.limit
        /\ \A i \in 1..Len(ret') :
              /\ ret'[i].session_id \in DOMAIN conversation_sessions
              /\ conversation_sessions[ret'[i].session_id].user_id = arg'.user_id
        /\ \A i \in 1..(Len(ret') - 1) :
              ret'[i].last_updated >= ret'[i + 1].last_updated

\* The step is a successful save_message_to_session or update_session_title
\* on an existing session.
C21_Updated ==
    /\ op' \in {"save_message_to_session", "update_session_title"}
    /\ ret' = TRUE
    /\ arg'.session_id \in DOMAIN conversation_sessions'

\* A step that neither creates nor updates a session of a user leaves the
\* first entry of that user's list as it was.
C21_Until ==
    \A u \in UserIds :
        (~ \/ C21_Updated /\ conversation_sessions'[arg'.session_id].user_id = u
           \/ op' = "create_new_session" /\ arg'.user_id = u) =>
            C21_Firsts(conversation_sessions', u) = C21_Firsts(conversation_sessions, u)

C26_UserMessage == [role |-> "user", content |-> arg.prompt]

\* C26: in a turn that reaches the completion call, the message list sent
\* is the system prompt, then the last entries of the transcript as it was
\* before the turn, at most 3 of them, then the new user message twice: as
\* the last history entry and as the final element.
C26_UserMessageTwice ==
    [][(op' = "turn" /\ context' # << >>) =>
          \E n \in {Len(context')} :
             /\ n >= 3
             /\ context'[1].role = "system"
             /\ context'[n] = C26_UserMessage'
             /\ context'[n - 1] = C26_UserMessage'
             /\ n - 3 <= 3
             /\ SubSeq(context', 2, n - 2) = LastN(messages, 3)]_vars

\* C26 witness: a turn on a transcript of six entries sent the system
\* prompt, three of the six and the prompt twice.
C26_Witness ==
    /\ op = "turn" /\ Len(context) = 6
    /\ Len(messages) >= 7
    /\ context[5] = C26_UserMessage /\ context[6] = C26_UserMessage
    /\ context[4] = messages[6]

\* The conversation records a step appended to the primary store.
C27_Saved ==
    [k \in 1..(Len(conversations') - Len(conversations)) |->
        loads(conversations'[Len(conversations) + k].conversation_data)]

\* C27: the context_used flag of the conversation record a turn saves is
\* true if and only if the transcript held at least one entry before the
\* turn's user message was appended: true on a fresh session, whose
\* transcript holds the welcome message, false on a cleared transcript.
C27_ContextUsed ==
    [][op' = "turn" =>
          \A k \in 1..Len(C27_Saved) :
             /\ C27_Saved[k].user_message = arg'.prompt
             /\ C27_Saved[k].context_used = (Len(messages) >= 1)
             /\ messages = <<WelcomeMessage>> => C27_Saved[k].context_used
             /\ ~C27_Saved[k].context_used => messages = << >>]_vars

\* C27 witness: a turn on the cleared transcript saved a record whose flag
\* is false.
C27_Witness ==
    /\ op = "turn" /\ Len(messages) = 2
    /\ Len(conversations) = 1
    /\ loads(conversations[1].conversation_data).context_used = FALSE

\* The endpoint was called and answered status 200 with a content that is
\* empty or only whitespace.
C28_Blank ==
    /\ op = "turn" /\ context # << >>
    /\ http.kind = "response" /\ http.status_code = 200
    /\ http.body.shape = "content"
    /\ strip(http.body.content) = << >>

\* C28: when the endpoint answers status 200 with a blank content,
\* get_response returns the empty string, not None, and the turn is a
\* failed one: the apology is shown, the user message alone is appended to
\* the transcript, no conversation record is saved and, unless the insert
\* into error_logs fails, a groq_api_error record is written.
C28_BlankIsFailure ==
    [][C28_Blank' =>
          /\ response' = Some(<< >>)
          /\ shown'[1] = "apology_no_response"
          /\ messages' = Append(messages, C26_UserMessage')
          /\ conversations' = conversations
          /\ "no_text" \notin fault'.sqlite =>
                /\ Len(error_logs') > Len(error_logs)
                /\ error_logs'[Len(error_logs) + 1].error_type = "groq_api_error"
                /\ error_logs'[Len(error_logs) + 1].context.user_query = arg'.prompt]_vars

\* C28 witness: a blank answer on a fresh session; the transcript ends
\* with the user message and error_logs holds the groq_api_error record.
C28_Witness ==
    /\ C28_Blank /\ fault.sqlite = {} /\ fault.file = {}
    /\ response = Some(<< >>)
    /\ messages = <<WelcomeMessage, C26_UserMessage>>
    /\ Len(error_logs) = 1 /\ error_logs[1].error_type = "groq_api_error"
    /\ conversations = << >>

\* The typed chat turn on the state before the step, with the prompt, the
\* completion outcome and the failures of the step made.
C25_Typed ==
    turn([user_preferences |-> user_preferences, messages |-> messages,
          users |-> users, conversations |-> conversations,
          tel |-> Tel(logs, user_activity, error_logs, log_file)],
         TurnInput(arg'.prompt, http', fault'.save, fault'.file, fault'.sqlite),
         db_now', month)

\* C25: a quick-action turn leaves the transcript, the rows of the primary
\* store and the rows of the telemetry store that the typed chat turn
\* leaves when it starts from the same state with the same prompt and the
\* same completion outcome.
C25_QuickAsTyped ==
    [][op' = "quick_turn" =>
          \E r \in {C25_Typed} :
             /\ messages' = r.messages
             /\ users' = r.users /\ conversations' = r.conversations
             /\ logs' = r.tel.logs
             /\ user_activity' = r.tel.user_activity
             /\ error_logs' = r.tel.error_logs]_vars

\* The orders in which two callers can take the steps of their calls.
C23_Schedules == [1..(Cardinality(Callers) * Cardinality(AppendSteps)) -> Callers]

\* The store after the callers took their steps in the order sch.
RECURSIVE C23_Run(_, _)
C23_Run(st, sch) ==
    IF sch = << >> THEN st
    ELSE C23_Run(append_step(st, Head(sch), db_now), Tail(sch))

\* Two calls on the same existing session are about to start and meet no
\* failure.
C23_TwoAppenders ==
    /\ DOMAIN txn = Callers
    /\ \A c \in Callers :
          /\ txn[c].pc = "start" /\ txn[c].fault = NoFault
          /\ txn[c].key = "s1"

\* C23: there is an interleaving of two save_message_to_session calls on
\* the same session, both returning True, after which the session's
\* message_count differs from the number of messages stored for it.
C23_Unguarded ==
    C23_TwoAppenders =>
        \E sch \in C23_Schedules :
            \E f \in {C23_Run(Store(users, conversation_sessions,
                                     conversation_messages, txn), sch)} :
                /\ \A c \in Callers : f.calls[c].ret = <<TRUE>>
                /\ f.conversation_sessions["s1"].message_count #
                       Len(MessagesOf(f.conversation_messages, "s1"))

\* C23, amended: under every interleaving of save_message_to_session calls
\* the message_count of every session equals the number of messages stored
\* for it; a call that updates the session row while another call's update
\* of it is uncommitted waits for that commit and counts from its value.
C23_Serialised ==
    /\ \A s \in DOMAIN conversation_sessions :
          conversation_sessions[s].message_count =
              Len(MessagesOf(conversation_messages, s))
    /\ \A c, d \in DOMAIN txn :
          (c # d /\ txn[c].pc = "written" /\ txn[d].pc = "written") =>
              txn[c].key # txn[d].key

\* C23 witness: both calls appended to the session s1 and returned True;
\* message_count counts both messages.
C23_Witness ==
    /\ DOMAIN txn = Callers
    /\ \A c \in Callers : txn[c].ret = <<TRUE>> /\ txn[c].key = "s1"
                           /\ "message_count" \in DOMAIN txn[c]
    /\ \E c, d \in Callers : txn[c].message_count = txn[d].message_count + 1
    /\ conversation_sessions["s1"].message_count = 2
    /\ Len(conversation_messages) = 2

\* The calls for user u that have committed.
C24_Committed(u) ==
    {c \in DOMAIN txn : txn[c].seq > 0 /\ txn[c].key = u}

\* C24: under every interleaving of update_user_preferences calls for the
\* same user the stored preferences are, at every moment, the complete
\* snapshot of the call that committed last (the row as it was while no
\* call has committed), never a mix of fields of different snapshots.
C24_LastSnapshotWhole ==
    \A u \in UserIds :
        IF C24_Committed(u) = {}
        THEN /\ u \in DOMAIN users <=> u \in DOMAIN UpsertUsers
             /\ u \in DOMAIN users => users[u] = UpsertUsers[u]
        ELSE /\ u \in DOMAIN users
             /\ \E c \in C24_Committed(u) :
                   /\ \A d \in C24_Committed(u) : txn[d].seq <= txn[c].seq
                   /\ users[u].preferences = dumps(txn[c].preferences)
                   /\ loads(users[u].preferences) = txn[c].preferences

\* C24 witness: two sessions of u1 wrote at the same time, the full
\* snapshot committed first and the snapshot of one field last; the row
\* holds the one field alone.
C24_Witness ==
    /\ DOMAIN txn = Callers
    /\ \A c \in Callers : "seq" \in DOMAIN txn[c] /\ txn[c].key = "u1"
                           /\ txn[c].ret = <<TRUE>>
    /\ txn["c1"].seq = 1 /\ txn["c2"].seq = 2
    /\ txn["c1"].preferences = SidebarPreferences
    /\ txn["c2"].preferences = [budget_range |-> "Luxury"]
    /\ users["u1"].preferences = dumps([budget_range |-> "Luxury"])

=============================================================================
